---- MODULE Spec2Model ----
(***************************************************************************)
(* Model of the LeetVis backend orchestration core (backend/main.py) and   *)
(* of the database service it calls (backend/database/service.py).         *)
(*                                                                         *)
(* Text is modelled as a sequence of one-character strings so that the     *)
(* normalisation of titles and the building and parsing of video ids are   *)
(* computed as the Python code computes them.                              *)
(*                                                                         *)
(* Request handlers are coroutines on one event loop: a handler runs       *)
(* atomically up to its next await.  generate_video awaits only at         *)
(* fetch_problem_details, so it is two actions (GenStart, GenFinish).      *)
(* Background jobs run on the thread pool and interleave with everything.  *)
(*                                                                         *)
(* Specifications:                                                         *)
(*   Spec           all endpoints and jobs, two concurrent requests        *)
(*   LiveSpec       requests and jobs, with the threads' fairness          *)
(*   JobsSpec       two concurrent requests and their jobs                 *)
(*   SerialSpec     all endpoints and jobs, one request at a time          *)
(*   InputSpec      requests with unusual bodies, one after the other      *)
(*   NormalizeSpec  requests for every title up to MaxTitleLen characters  *)
(*   SeparatorSpec  requests for titles with runs of spaces and hyphens     *)
(*   OutageSpec     requests and jobs while the database comes and goes    *)
(*   ServiceSpec    the calls of DatabaseService on the videos table       *)
(*   PurgeSpec      requests, jobs, DELETE /api/video and the cache purge  *)
(*   PoolSpec       MaxPoolJobs jobs for two keys on the two threads       *)
(*   KeySpec        requests whose slugs end in languages and video types  *)
(*   AliasSpec      requests for one key under two titles, and their jobs  *)
(*   DeleteSpec     requests, jobs and DELETE /api/video, also short ids   *)
(***************************************************************************)
EXTENDS Integers, Sequences, FiniteSets, TLC

\* ------------------------------------------------------------------ bounds
MaxJobs == 2
MaxClock == 2
MaxTitleLen == 3
MaxSeparatorTitleLen == 4
MaxPoolJobs == 3

\* ------------------------------------------------------- program constants
MaxWorkers == 2

None == [kind |-> "None"]
Handlers == {"h1", "h2"}

\* ------------------------------------------------------------ text helpers
LowerCase == <<"a", "b", "c", "d", "e", "f", "g", "h", "i", "j", "k", "l", "m", "n", "o", "p", "q", "r", "s", "t", "u", "v", "w", "x", "y", "z">>
UpperCase == <<"A", "B", "C", "D", "E", "F", "G", "H", "I", "J", "K", "L", "M", "N", "O", "P", "Q", "R", "S", "T", "U", "V", "W", "X", "Y", "Z">>

IsLower(c) == \E i \in 1..Len(LowerCase) : LowerCase[i] = c
IsUpper(c) == \E i \in 1..Len(UpperCase) : UpperCase[i] = c
IsAlpha(c) == IsLower(c) \/ IsUpper(c)

LowerChar(c) ==
    IF IsUpper(c) THEN LowerCase[CHOOSE i \in 1..Len(UpperCase) : UpperCase[i] = c] ELSE c
UpperChar(c) ==
    IF IsLower(c) THEN UpperCase[CHOOSE i \in 1..Len(LowerCase) : LowerCase[i] = c] ELSE c

\* str.lower()
Lower(s) == [i \in 1..Len(s) |-> LowerChar(s[i])]

\* str.title(): first cased character of every run of letters in upper case, the rest lower
Title(s) ==
    [i \in 1..Len(s) |->
        IF i = 1 \/ ~IsAlpha(s[i-1]) THEN UpperChar(s[i]) ELSE LowerChar(s[i])]

\* str.replace(a, b) for one-character a and b
Replace(s, a, b) == [i \in 1..Len(s) |-> IF s[i] = a THEN b ELSE s[i]]

RECURSIVE LStrip(_)
LStrip(s) == IF s # <<>> /\ Head(s) = " " THEN LStrip(Tail(s)) ELSE s
RECURSIVE RStrip(_)
RStrip(s) == IF s # <<>> /\ s[Len(s)] = " " THEN RStrip(SubSeq(s, 1, Len(s) - 1)) ELSE s
\* str.strip()
Strip(s) == RStrip(LStrip(s))

\* str.split(sep) for a one-character sep: empty fields are kept
RECURSIVE SplitFrom(_, _, _)
SplitFrom(s, sep, cur) ==
    IF s = <<>> THEN <<cur>>
    ELSE IF Head(s) = sep THEN <<cur>> \o SplitFrom(Tail(s), sep, <<>>)
    ELSE SplitFrom(Tail(s), sep, Append(cur, Head(s)))
Split(s, sep) == SplitFrom(s, sep, <<>>)

\* sep.join(parts)
RECURSIVE Join(_, _)
Join(parts, sep) ==
    IF parts = <<>> THEN <<>>
    ELSE IF Len(parts) = 1 THEN parts[1]
    ELSE parts[1] \o sep \o Join(Tail(parts), sep)

\* ------------------------------------------------------------ request data
java == <<"j", "a", "v", "a">>
cpp == <<"c", "p", "p">>
optimal == <<"o", "p", "t", "i", "m", "a", "l">>
python == <<"p", "y", "t", "h", "o", "n">>
explanation == <<"e", "x", "p", "l", "a", "n", "a", "t", "i", "o", "n">>
brute_force == <<"b", "r", "u", "t", "e", "_", "f", "o", "r", "c", "e">>

TwoSumTitle == <<"T", "w", "o", " ", "S", "u", "m">>

ReqTitles == {TwoSumTitle}
ReqLanguages == {python}
ReqTypes == {explanation}

\* the values VideoRequest accepts: Literal["python", "java", "cpp"] and
\* Literal["explanation", "brute_force", "optimal"]
RequestLanguages == {python, java, cpp}
RequestVideoTypes == {explanation, brute_force, optimal}

\* request data outside the usual: a title no metadata source knows, a title that is
\* empty after trimming, a language and a video type outside the accepted values
ruby == <<"r", "u", "b", "y">>
summary == <<"s", "u", "m", "m", "a", "r", "y">>
UnknownTitle == <<"N", "o", " ", "S", "u", "c", "h">>
BlankTitle == <<" ">>
InputTitles == {TwoSumTitle, UnknownTitle, BlankTitle}

\* a text with every run of characters of seps shortened to the last character of the run
RECURSIVE SqueezeRuns(_, _)
SqueezeRuns(s, seps) ==
    IF Len(s) < 2 THEN s
    ELSE IF s[1] \in seps /\ s[2] \in seps THEN SqueezeRuns(Tail(s), seps)
    ELSE <<s[1]>> \o SqueezeRuns(Tail(s), seps)
\* the normalisation with runs of separators collapsed into one underscore
NormalizeTextCollapsing(title) ==
    SqueezeRuns(Replace(Replace(Lower(Strip(title)), " ", "_"), "-", "_"), {"_"})

\* the normalisation with the arguments of its first replace the other way round
NormalizeTextSwapped(title) == Replace(Replace(Lower(Strip(title)), "_", " "), "-", "_")

\* VideoRequest.title_slug, and the same expression in DatabaseService:
\* problem_title.strip().lower().replace(" ", "_").replace("-", "_")
NormalizeText(title) == Replace(Replace(Lower(Strip(title)), " ", "_"), "-", "_")
\* upload_video: problem_title.lower().replace(" ", "_").replace("-", "_")
SafeTitleText(problem_title) == Replace(Replace(Lower(problem_title), " ", "_"), "-", "_")

\* the id without the language
MakeVideoIdNoLanguage(slug, language, video_type) ==
    slug \o <<"_">> \o video_type

\* the id with video_type and language in the other order
MakeVideoIdTypeFirst(slug, language, video_type) ==
    slug \o <<"_">> \o video_type \o <<"_">> \o language

\* video_id = f"{title_slug}_{request.language}_{request.video_type}"
MakeVideoId(slug, language, video_type) ==
    slug \o <<"_">> \o language \o <<"_">> \o video_type

\* the Artifact Keys of the model and the ids generate_video hands out for them
ArtifactKeys ==
    {[title_slug |-> NormalizeText(TwoSumTitle), language |-> python, video_type |-> v] :
        v \in {explanation, brute_force}}
IdOf(key) == MakeVideoId(key.title_slug, key.language, key.video_type)
VideoIds == {IdOf(key) : key \in ArtifactKeys}

\* the (title_slug, language, video_type) get_video_status and get_video read from an id:
\* parts = video_id.split("_"); parts[-1], parts[-2], "_".join(parts[:-2])
ParseId(video_id) ==
    LET parts == Split(video_id, "_")
        n == Len(parts)
    IN  IF n < 3 THEN [parts |-> n]
        ELSE [parts |-> n, video_type |-> parts[n], language |-> parts[n - 1],
              title_slug |-> Join(SubSeq(parts, 1, n - 2), <<"_">>)]

\* the (problem_title, language, video_type) delete_video reads from an id:
\* parts = video_id.replace("_", " ").split(" "); " ".join(parts[:-2]).title()
ParseDeleteId(video_id) ==
    LET parts == Split(Replace(video_id, "_", " "), " ")
        n == Len(parts)
    IN  IF n < 3 THEN [parts |-> n]
        ELSE [parts |-> n, video_type |-> parts[n], language |-> parts[n - 1],
              problem_title |-> Title(Join(SubSeq(parts, 1, n - 2), <<" ">>))]

\* The text functions are evaluated once for the texts that occur in the model and
\* looked up afterwards; for any other text they are computed.
ParseIdTable == [v \in VideoIds |-> ParseId(v)]
ParseDeleteIdTable == [v \in VideoIds |-> ParseDeleteId(v)]
KnownTexts ==
    ReqTitles \cup InputTitles \cup {NormalizeText(t) : t \in ReqTitles \cup InputTitles}
    \cup {ParseIdTable[v].title_slug : v \in {x \in VideoIds : ParseIdTable[x].parts >= 3}}
    \cup {ParseDeleteIdTable[v].problem_title : v \in {x \in VideoIds : ParseDeleteIdTable[x].parts >= 3}}
NormalizeTable == [t \in KnownTexts |-> NormalizeText(t)]
SafeTitleTable == [t \in KnownTexts |-> SafeTitleText(t)]
Normalize(title) == IF title \in KnownTexts THEN NormalizeTable[title] ELSE NormalizeText(title)
SafeTitle(title) == IF title \in KnownTexts THEN SafeTitleTable[title] ELSE SafeTitleText(title)
Parsed(video_id) ==
    IF video_id \in VideoIds THEN ParseIdTable[video_id] ELSE ParseId(video_id)
ParsedForDelete(video_id) ==
    IF video_id \in VideoIds THEN ParseDeleteIdTable[video_id] ELSE ParseDeleteId(video_id)


\* ------------------------------------------------------------- storage URLs
\* upload_video: f"{supabase_url}/storage/v1/object/public/{BUCKET}/{safe_title}_{language}_{video_type}_{timestamp}.mp4"
StorageUrl(problem_title, language, video_type, timestamp) ==
    [kind |-> "storage",
     safe_title |-> SafeTitle(problem_title),
     language |-> language, video_type |-> video_type, timestamp |-> timestamp]
\* the empty string stored as a location
EmptyUrl == [kind |-> "empty"]
\* f"/api/video-status/{video_id}"
StatusUrl(video_id) == [kind |-> "status", video_id |-> video_id]

\* ------------------------------------------------- videos table (Cache Store)
SchemaLanguages == {python, java, cpp}
SchemaVideoTypes == {explanation, brute_force, optimal}

VideoRow(title_slug, language, video_type, storage_url) ==
    [problem_title |-> title_slug, language |-> language,
     video_type |-> video_type, storage_url |-> storage_url]

\* rows selected by .eq("problem_title", t).eq("language", l).eq("video_type", v)
MatchRows(rows, t, l, v) ==
    {r \in rows : r.problem_title = t /\ r.language = l /\ r.video_type = v}

\* get_video with the emptiness test off by one: len(response.data) > 1
GetVideoOffByOne(rows, up, problem_title, language, video_type) ==
    IF ~up THEN None
    ELSE LET m == MatchRows(rows, NormalizeText(problem_title), language, video_type)
         IN  IF Cardinality(m) <= 1 THEN None ELSE CHOOSE r \in m : TRUE

\* DatabaseService.get_video: any exception is swallowed and None returned
GetVideo(rows, up, problem_title, language, video_type) ==
    IF ~up THEN None
    ELSE LET m == MatchRows(rows, Normalize(problem_title), language, video_type)
         IN  IF m = {} THEN None ELSE CHOOSE r \in m : TRUE

\* the table without its UNIQUE(problem_title, language, video_type) constraint
InsertAcceptedNoUnique(rows, up, row) ==
    /\ up
    /\ row.language \in SchemaLanguages
    /\ row.video_type \in SchemaVideoTypes

\* the insert is accepted by the table: CHECK constraints and UNIQUE(problem_title, language, video_type)
InsertAccepted(rows, up, row) ==
    /\ up
    /\ row.language \in SchemaLanguages
    /\ row.video_type \in SchemaVideoTypes
    /\ MatchRows(rows, row.problem_title, row.language, row.video_type) = {}

\* create_video as an upsert: the row of the key is replaced by the new one
CreateVideoRowsUpsert(rows, up, problem_title, language, video_type, storage_url) ==
    LET row == VideoRow(Normalize(problem_title), language, video_type, storage_url)
    IN  IF InsertAcceptedNoUnique(rows, up, row)
        THEN (rows \ MatchRows(rows, row.problem_title, language, video_type)) \cup {row}
        ELSE rows
\* DatabaseService.create_video: the table after the call
CreateVideoRows(rows, up, problem_title, language, video_type, storage_url) ==
    LET row == VideoRow(Normalize(problem_title), language, video_type, storage_url)
    IN  IF InsertAccepted(rows, up, row) THEN rows \cup {row} ELSE rows
\* create_video returning the record it was asked to insert, accepted or not
CreateVideoResultAlways(rows, up, problem_title, language, video_type, storage_url) ==
    VideoRow(Normalize(problem_title), language, video_type, storage_url)
\* DatabaseService.create_video: the value returned (the row, or None)
CreateVideoResult(rows, up, problem_title, language, video_type, storage_url) ==
    LET row == VideoRow(Normalize(problem_title), language, video_type, storage_url)
    IN  IF InsertAccepted(rows, up, row) THEN row ELSE None

\* delete_video filtering on the display form of the title instead of the slug
DeleteVideoRowsByTitle(rows, up, problem_title, language, video_type) ==
    IF ~up THEN rows
    ELSE rows \ MatchRows(rows, Title(Replace(problem_title, "_", " ")), language, video_type)

\* DatabaseService.delete_video: problem_title is compared as given, not normalised
DeleteVideoRows(rows, up, problem_title, language, video_type) ==
    IF ~up THEN rows ELSE rows \ MatchRows(rows, problem_title, language, video_type)
\* DatabaseService.delete_video: response.data is not None whenever the call did not raise
DeleteVideoResult(rows, up, problem_title, language, video_type) == up

\* DatabaseService.clear_all_videos: delete().neq("id", 0) removes every row
ClearAllVideosRows(rows, up) == IF up THEN {} ELSE rows
\* DatabaseService.clear_all_videos: True unless the call raised
ClearAllVideosResult(rows, up) == up

\* ------------------------------------------- problems table and LeetCode API
ProblemRow(title, title_slug) == [title |-> title, title_slug |-> title_slug]
ProblemDetails(title) == [kind |-> "details", title |-> title]

\* one character of an ILIKE pattern against one character of the text
ILikeChar(p, c) == p = "_" \/ LowerChar(p) = LowerChar(c)
\* text ILIKE '%' || pattern || '%'
ILikeContains(text, pattern) ==
    \E off \in 0..(Len(text) - Len(pattern)) :
        \A i \in 1..Len(pattern) : ILikeChar(pattern[i], text[off + i])

\* DatabaseService.get_problem_by_title
GetProblemByTitle(prows, up, title) ==
    IF ~up THEN None
    ELSE LET m == {r \in prows : ILikeContains(r.title, title)}
         IN  IF m = {} THEN None ELSE CHOOSE r \in m : TRUE
\* DatabaseService.get_problem_by_title_slug
GetProblemByTitleSlug(prows, up, title_slug) ==
    IF ~up THEN None
    ELSE LET m == {r \in prows : r.title_slug = title_slug}
         IN  IF m = {} THEN None ELSE CHOOSE r \in m : TRUE
\* DatabaseService.create_problem_from_leetcode (title_slug is UNIQUE)
CreateProblemRows(prows, up, title, title_slug) ==
    IF up /\ {r \in prows : r.title_slug = title_slug} = {}
    THEN prows \cup {ProblemRow(title, title_slug)} ELSE prows

convert_title_to_slug(title) == Replace(Lower(title), " ", "-")

\* the questions LeetCode knows
LeetCodeQuestions == {ProblemRow(TwoSumTitle, <<"t", "w", "o", "-", "s", "u", "m">>)}
\* fetch_problem_details_by_title_slug: the question, or None when it raises
\* (no such question, a non-200 answer or a network error all raise)
LeetCodeQuestion(title_slug, netOk) ==
    LET m == {q \in LeetCodeQuestions : q.title_slug = title_slug}
    IN  IF netOk /\ m # {} THEN CHOOSE q \in m : TRUE ELSE None

mock_problems == {<<"t", "w", "o", " ", "s", "u", "m">>, <<"a", "d", "d", " ", "t", "w", "o", " ", "n", "u", "m", "b", "e", "r", "s">>}
MockTitle(normalized_title) ==
    IF normalized_title = <<"t", "w", "o", " ", "s", "u", "m">> THEN TwoSumTitle ELSE <<"A", "d", "d", " ", "T", "w", "o", " ", "N", "u", "m", "b", "e", "r", "s">>

\* a fetch whose fallback makes up details from the title it was given
FetchProblemDetailsAlwaysFound(prows, up, netOk, problem_title) ==
    LET existing == GetProblemByTitle(prows, up, problem_title)
        leetcode_data == LeetCodeQuestion(convert_title_to_slug(problem_title), netOk)
    IN  IF existing # None THEN ProblemDetails(existing.title)
        ELSE IF leetcode_data # None THEN ProblemDetails(leetcode_data.title)
        ELSE ProblemDetails(problem_title)

\* fetch_problem_details: the value returned
FetchProblemDetails(prows, up, netOk, problem_title) ==
    LET existing == GetProblemByTitle(prows, up, problem_title)
        title_slug == convert_title_to_slug(problem_title)
        by_slug == GetProblemByTitleSlug(prows, up, title_slug)
        leetcode_data == LeetCodeQuestion(title_slug, netOk)
        normalized_title == Strip(Lower(problem_title))
    IN  IF existing # None THEN ProblemDetails(existing.title)
        ELSE IF by_slug # None THEN ProblemDetails(by_slug.title)
        ELSE IF leetcode_data # None THEN ProblemDetails(leetcode_data.title)
        ELSE IF normalized_title \in mock_problems THEN ProblemDetails(MockTitle(normalized_title))
        ELSE None
\* fetch_problem_details: the problems table after the call
FetchProblemRows(prows, up, netOk, problem_title) ==
    LET existing == GetProblemByTitle(prows, up, problem_title)
        title_slug == convert_title_to_slug(problem_title)
        by_slug == GetProblemByTitleSlug(prows, up, title_slug)
        leetcode_data == LeetCodeQuestion(title_slug, netOk)
    IN  IF existing = None /\ by_slug = None /\ leetcode_data # None
        THEN CreateProblemRows(prows, up, leetcode_data.title, title_slug)
        ELSE prows


\* -------------------------------------------------------------------- state
VARIABLES
    db,                       \* rows of the videos table (Cache Store)
    problems,                 \* rows of the problems table
    storage,                  \* locations of the objects in the storage bucket
    dbUp,                     \* the database answers (FALSE: every call raises)
    video_generation_status,  \* the global status dictionary, video_id -> entry
    queue,                    \* work items submitted to the executor, not yet started
    workers,                  \* the executor's threads: Idle or the frame of a running job
    pending,                  \* per handler: None or the frame of generate_video at its await
    resp,                     \* the HTTP response sent by the last step (NoResponse: none)
    submitted,                \* number of executor.submit calls so far
    clock                     \* wall-clock second used in upload file names

vars == <<db, problems, storage, dbUp, video_generation_status, queue, workers,
          pending, resp, submitted, clock>>

Idle == [pc |-> "idle"]
NoResponse == [op |-> "none", http |-> 0]

Request(problem_title, language, video_type) ==
    [problem_title |-> problem_title, language |-> language, video_type |-> video_type]
Requests == {Request(t, l, v) : t \in ReqTitles, l \in ReqLanguages, v \in ReqTypes}
\* a location written before this process started
OldUrl(video_type) == StorageUrl(Normalize(TwoSumTitle), python, video_type, 0)
\* contents of the videos table found at start-up (it outlives the process)
InitialTables ==
    { {VideoRow(Normalize(TwoSumTitle), python, brute_force, OldUrl(brute_force))} \cup x : x \in {{},
      {VideoRow(Normalize(TwoSumTitle), python, explanation, OldUrl(explanation))},
      {VideoRow(Normalize(TwoSumTitle), python, explanation, EmptyUrl)} } }

Init ==
    /\ db \in InitialTables
    /\ problems = {}
    /\ storage = {r.storage_url : r \in {x \in db : x.storage_url # EmptyUrl}}
    /\ dbUp = TRUE
    /\ video_generation_status = <<>>
    /\ queue = <<>>
    /\ workers = [w \in 1..MaxWorkers |-> Idle]
    /\ pending = [h \in Handlers |-> None]
    /\ resp = NoResponse
    /\ submitted = 0
    /\ clock = 1

\* ------------------------------------------------------------ status entries
StartingEntry ==
    [status |-> "generating", progress |-> 0, message |-> "Starting video generation..."]
\* an error entry that drops its message
ErrorEntryNoMessage(message) == [status |-> "error", progress |-> 0, message |-> ""]
ErrorEntry(message) == [status |-> "error", progress |-> 0, message |-> message]
\* a ready entry that keeps the progress of the last stage
ReadyEntryAt95(storage_url) ==
    [status |-> "ready", progress |-> 95, message |-> "Your video is ready!",
     storage_url |-> storage_url]
ReadyEntry(storage_url) ==
    [status |-> "ready", progress |-> 100, message |-> "Your video is ready!",
     storage_url |-> storage_url]

SolutionFailedMessage ==
    "We couldn't generate a solution for this problem. Please check the problem title and try again."
RenderFailedMessage ==
    "Sorry, we couldn't create the video animation. Please try again later."
FileMissingMessage ==
    "Video generation completed but file not found. Please try again."
UploadFailedMessage ==
    "Video was created but couldn't be saved to storage. Please try again."
\* the message of the outermost except branch (main.py:197-203)
UnexpectedErrorMessage ==
    "Something went wrong while creating your video. Our team has been notified."

\* ---------------------------------------------------------------- responses
VideoResponse(request, video_id, video_url, st) ==
    [op |-> "generate", http |-> 200, request |-> request,
     video_id |-> video_id, video_url |-> video_url, status |-> st]
HttpError(op, subject, code, detail) ==
    [op |-> op, http |-> code, subject |-> subject, detail |-> detail]

\* ------------------------------------------------- POST /api/generate-video
\* the in-flight test comparing with a state name the jobs never write
InFlightQueued(video_id) ==
    /\ video_id \in DOMAIN video_generation_status
    /\ video_generation_status[video_id].status = "queued"

\* STEP 2 answers from the status dictionary (generating, or ready with a location)
InFlight(video_id) ==
    /\ video_id \in DOMAIN video_generation_status
    /\ video_generation_status[video_id].status = "generating"
\* the completed test looking for a state name the jobs never write
CompletedNotStoredAsCompleted(video_id) ==
    /\ video_id \in DOMAIN video_generation_status
    /\ video_generation_status[video_id].status = "completed"
    /\ "storage_url" \in DOMAIN video_generation_status[video_id]
CompletedNotStored(video_id) ==
    /\ video_id \in DOMAIN video_generation_status
    /\ video_generation_status[video_id].status = "ready"
    /\ "storage_url" \in DOMAIN video_generation_status[video_id]

\* generate_video from its entry to its first await (STEP 1 and STEP 2)
GenStart(h, request) ==
    /\ pending[h] = None
    /\ LET title_slug == Normalize(request.problem_title)
           video_id == MakeVideoId(title_slug, request.language, request.video_type)
           existing_video == GetVideo(db, dbUp, title_slug, request.language, request.video_type)
       IN  IF existing_video # None /\ existing_video.storage_url # EmptyUrl
           THEN /\ resp' = VideoResponse(request, video_id, existing_video.storage_url, "ready")
                /\ UNCHANGED <<db, pending>>
           ELSE /\ db' = IF existing_video # None
                         THEN DeleteVideoRows(db, dbUp, title_slug, request.language, request.video_type)
                         ELSE db
                /\ IF InFlight(video_id)
                   THEN /\ resp' = VideoResponse(request, video_id, StatusUrl(video_id), "generating")
                        /\ UNCHANGED pending
                   ELSE IF CompletedNotStored(video_id)
                   THEN /\ resp' = VideoResponse(request, video_id,
                                      video_generation_status[video_id].storage_url, "ready")
                        /\ UNCHANGED pending
                   ELSE /\ pending' = [pending EXCEPT ![h] =
                                [kind |-> "frame", request |-> request, title_slug |-> title_slug,
                                 video_id |-> video_id, existing_video |-> existing_video]]
                        /\ resp' = NoResponse
    /\ UNCHANGED <<problems, storage, dbUp, video_generation_status, queue, workers,
                   submitted, clock>>

\* validation of the request body against VideoRequest with the video type left unchecked
ValidRequestLanguageOnly(request) ==
    request.language \in RequestLanguages

\* the request body is accepted by VideoRequest (problem_title: str accepts every text)
ValidRequest(request) ==
    /\ request.language \in RequestLanguages
    /\ request.video_type \in RequestVideoTypes

\* a body VideoRequest does not accept is answered 422 by the framework; generate_video
\* is not called
RejectRequest(request) ==
    /\ resp' = HttpError("generate", request, 422, "validation error")
    /\ UNCHANGED <<db, problems, storage, dbUp, video_generation_status, queue, workers,
                   pending, submitted, clock>>

\* POST /api/generate-video with any body: validation, then generate_video up to its await
PostGenerateVideo(h, request) ==
    IF ValidRequest(request) THEN GenStart(h, request) ELSE RejectRequest(request)

\* the work item handed to executor.submit
WorkItem(video_id, problem_details, request) ==
    [video_id |-> video_id, problem_details |-> problem_details, request |-> request]

\* generate_video from the return of fetch_problem_details to its response (STEP 3 and
\* STEP 4), with at most limit submissions in a run of the model
GenFinishWithin(h, limit) ==
    /\ pending[h] # None
    /\ \E netOk \in BOOLEAN :
        LET f == pending[h]
            problem_details == FetchProblemDetails(problems, dbUp, netOk, f.request.problem_title)
        IN  /\ problems' = FetchProblemRows(problems, dbUp, netOk, f.request.problem_title)
            /\ pending' = [pending EXCEPT ![h] = None]
            /\ IF problem_details = None
               THEN /\ resp' = HttpError("generate", f.request, 404, "Problem not found")
                    /\ UNCHANGED <<queue, submitted>>
               ELSE /\ submitted < limit
                    /\ queue' = Append(queue, WorkItem(f.video_id, problem_details, f.request))
                    /\ submitted' = submitted + 1
                    /\ resp' = VideoResponse(f.request, f.video_id, StatusUrl(f.video_id), "generating")
    /\ UNCHANGED <<db, storage, dbUp, video_generation_status, workers, clock>>

GenFinish(h) == GenFinishWithin(h, MaxJobs)

\* ------------------------------------------------ generate_video_background
SetEntry(video_id, entry) ==
    video_generation_status' =
        [v \in DOMAIN video_generation_status \cup {video_id} |->
            IF v = video_id THEN entry ELSE video_generation_status[v]]
\* video_generation_status[video_id]["progress"] = n: an update in place of the entry now stored
SetProgress(video_id, n) ==
    video_generation_status' = [video_generation_status EXCEPT ![video_id].progress = n]
\* video_generation_status[video_id]["message"] = m
SetMessage(video_id, m) ==
    video_generation_status' = [video_generation_status EXCEPT ![video_id].message = m]

Goto(w, pc) == workers' = [workers EXCEPT ![w].pc = pc]
Finish(w) == workers' = [workers EXCEPT ![w] = Idle]
At(w, pc) == workers[w].pc = pc

\* a thread that leaves the entry of an earlier job in place when it starts a job
JobStartKeepsEntry(w) ==
    /\ workers[w] = Idle
    /\ \A u \in 1..MaxWorkers : workers[u] = Idle => w <= u
    /\ queue # <<>>
    /\ LET item == Head(queue)
       IN  /\ workers' = [workers EXCEPT ![w] =
                  [pc |-> "progress20", video_id |-> item.video_id,
                   problem_details |-> item.problem_details, request |-> item.request,
                   title_slug |-> Normalize(item.request.problem_title),
                   storage_url |-> None, video_record |-> None]]
           /\ IF item.video_id \in DOMAIN video_generation_status
              THEN UNCHANGED video_generation_status
              ELSE SetEntry(item.video_id, StartingEntry)
    /\ queue' = Tail(queue)
    /\ resp' = NoResponse
    /\ UNCHANGED <<db, problems, storage, dbUp, pending, submitted, clock>>

\* a thread that takes the newest work item instead of the oldest
JobStartNewestFirst(w) ==
    /\ workers[w] = Idle
    /\ \A u \in 1..MaxWorkers : workers[u] = Idle => w <= u
    /\ queue # <<>>
    /\ LET item == queue[Len(queue)]
       IN  /\ workers' = [workers EXCEPT ![w] =
                  [pc |-> "progress20", video_id |-> item.video_id,
                   problem_details |-> item.problem_details, request |-> item.request,
                   title_slug |-> Normalize(item.request.problem_title),
                   storage_url |-> None, video_record |-> None]]
           /\ SetEntry(item.video_id, StartingEntry)
    /\ queue' = SubSeq(queue, 1, Len(queue) - 1)
    /\ resp' = NoResponse
    /\ UNCHANGED <<db, problems, storage, dbUp, pending, submitted, clock>>

\* an idle thread takes the oldest work item and runs the function up to line 71
JobStart(w) ==
    /\ workers[w] = Idle
    /\ \A u \in 1..MaxWorkers : workers[u] = Idle => w <= u
    /\ queue # <<>>
    /\ LET item == Head(queue)
       IN  /\ workers' = [workers EXCEPT ![w] =
                  [pc |-> "progress20", video_id |-> item.video_id,
                   problem_details |-> item.problem_details, request |-> item.request,
                   title_slug |-> Normalize(item.request.problem_title),
                   storage_url |-> None, video_record |-> None]]
           /\ SetEntry(item.video_id, StartingEntry)
    /\ queue' = Tail(queue)
    /\ resp' = NoResponse
    /\ UNCHANGED <<db, problems, storage, dbUp, pending, submitted, clock>>

JobProgress20(w) ==
    /\ At(w, "progress20")
    /\ SetProgress(workers[w].video_id, 20)
    /\ Goto(w, "message20")
    /\ resp' = NoResponse
    /\ UNCHANGED <<db, problems, storage, dbUp, queue, pending, submitted, clock>>

JobMessage20(w) ==
    /\ At(w, "message20")
    /\ SetMessage(workers[w].video_id, "Generating solution code...")
    /\ Goto(w, "solution")
    /\ resp' = NoResponse
    /\ UNCHANGED <<db, problems, storage, dbUp, queue, pending, submitted, clock>>

\* solution_generator.generate_solution returns or raises; on return line 95 follows
JobSolution(w) ==
    /\ At(w, "solution")
    /\ \E ok \in BOOLEAN :
        IF ok
        THEN /\ SetProgress(workers[w].video_id, 50)
             /\ Goto(w, "message50")
        ELSE /\ SetEntry(workers[w].video_id, ErrorEntry(SolutionFailedMessage))
             /\ Finish(w)
    /\ resp' = NoResponse
    /\ UNCHANGED <<db, problems, storage, dbUp, queue, pending, submitted, clock>>

JobMessage50(w) ==
    /\ At(w, "message50")
    /\ SetMessage(workers[w].video_id, "Creating video animation...")
    /\ Goto(w, "render")
    /\ resp' = NoResponse
    /\ UNCHANGED <<db, problems, storage, dbUp, queue, pending, submitted, clock>>

\* how the subprocess.run of the manim command ends in render_video: exit code 0 with
\* the output file found, a non-zero exit code, TimeoutExpired after 300 s, or exit
\* code 0 with no output file found
RenderRuns == {"completed", "exit_nonzero", "timeout", "no_output"}
\* a renderer that returns the expected path when the manim command timed out
RenderVideoNoTimeout(run) == IF run \in {"completed", "timeout"} THEN "path" ELSE "raises"
\* render_video (and manim_service.generate_video around it): the path is returned
\* after a completed run only; every other end raises RuntimeError
RenderVideo(run) == IF run = "completed" THEN "path" ELSE "raises"

\* a rendering stage that writes the text of the exception into the entry
JobRenderRunLeaksText(w, run) ==
    /\ At(w, "render")
    /\ IF RenderVideo(run) = "path"
       THEN \E exists \in BOOLEAN :
               IF exists
               THEN /\ SetProgress(workers[w].video_id, 70)
                    /\ Goto(w, "message70")
               ELSE /\ SetEntry(workers[w].video_id, ErrorEntry(FileMissingMessage))
                    /\ Finish(w)
       ELSE /\ SetEntry(workers[w].video_id, ErrorEntry(run))
            /\ Finish(w)
    /\ resp' = NoResponse
    /\ UNCHANGED <<db, problems, storage, dbUp, queue, pending, submitted, clock>>

\* the rendering stage for one end of the manim command: manim_service.generate_video
\* returns a path or raises; a returned path is tested with os.path.exists(video_path);
\* on success line 126 follows
JobRenderRun(w, run) ==
    /\ At(w, "render")
    /\ IF RenderVideo(run) = "path"
       THEN \E exists \in BOOLEAN :
               IF exists
               THEN /\ SetProgress(workers[w].video_id, 70)
                    /\ Goto(w, "message70")
               ELSE /\ SetEntry(workers[w].video_id, ErrorEntry(FileMissingMessage))
                    /\ Finish(w)
       ELSE /\ SetEntry(workers[w].video_id, ErrorEntry(RenderFailedMessage))
            /\ Finish(w)
    /\ resp' = NoResponse
    /\ UNCHANGED <<db, problems, storage, dbUp, queue, pending, submitted, clock>>

JobRender(w) == \E run \in RenderRuns : JobRenderRun(w, run)

JobMessage70(w) ==
    /\ At(w, "message70")
    /\ SetMessage(workers[w].video_id, "Uploading video to storage...")
    /\ Goto(w, "upload")
    /\ resp' = NoResponse
    /\ UNCHANGED <<db, problems, storage, dbUp, queue, pending, submitted, clock>>

\* an upload step that goes on to persistence without a location when the upload failed
JobUploadIgnoresFailure(w) ==
    /\ At(w, "upload")
    /\ \/ \E timestamp \in {clock, clock + 1} :
            /\ timestamp <= MaxClock
            /\ clock' = timestamp
            /\ LET url == StorageUrl(workers[w].title_slug, workers[w].request.language,
                                     workers[w].request.video_type, timestamp)
               IN  /\ storage' = storage \cup {url}
                   /\ workers' = [workers EXCEPT ![w].storage_url = url, ![w].pc = "message90"]
       \/ /\ workers' = [workers EXCEPT ![w].storage_url = EmptyUrl, ![w].pc = "message90"]
          /\ UNCHANGED <<storage, clock>>
    /\ SetProgress(workers[w].video_id, 90)
    /\ resp' = NoResponse
    /\ UNCHANGED <<db, problems, dbUp, queue, pending, submitted>>

\* storage_service.upload_video returns the public URL, or None on any failure;
\* the file name carries the second of the upload; on success line 153 follows
JobUpload(w) ==
    /\ At(w, "upload")
    /\ \/ \E timestamp \in {clock, clock + 1} :
            /\ timestamp <= MaxClock
            /\ clock' = timestamp
            /\ LET url == StorageUrl(workers[w].title_slug, workers[w].request.language,
                                     workers[w].request.video_type, timestamp)
               IN  /\ storage' = storage \cup {url}
                   /\ workers' = [workers EXCEPT ![w].storage_url = url, ![w].pc = "message90"]
            /\ SetProgress(workers[w].video_id, 90)
       \/ /\ SetEntry(workers[w].video_id, ErrorEntry(UploadFailedMessage))
          /\ Finish(w)
          /\ UNCHANGED <<storage, clock>>
    /\ resp' = NoResponse
    /\ UNCHANGED <<db, problems, dbUp, queue, pending, submitted>>

JobMessage90(w) ==
    /\ At(w, "message90")
    /\ SetMessage(workers[w].video_id, "Saving video record to database...")
    /\ Goto(w, "persist")
    /\ resp' = NoResponse
    /\ UNCHANGED <<db, problems, storage, dbUp, queue, pending, submitted, clock>>

\* DatabaseService.create_video; a None result is only logged; line 175 follows
JobPersist(w) ==
    /\ At(w, "persist")
    /\ LET j == workers[w]
       IN  \E ok \in BOOLEAN: /\ db' = CreateVideoRows(db, dbUp /\ ok, j.title_slug, j.request.language,
                                    j.request.video_type, j.storage_url)
           /\ workers' = [workers EXCEPT
                  ![w].video_record = CreateVideoResult(db, dbUp /\ ok, j.title_slug, j.request.language,
                                                        j.request.video_type, j.storage_url),
                  ![w].pc = "message95"]
    /\ SetProgress(workers[w].video_id, 95)
    /\ resp' = NoResponse
    /\ UNCHANGED <<problems, storage, dbUp, queue, pending, submitted, clock>>

JobMessage95(w) ==
    /\ At(w, "message95")
    /\ SetMessage(workers[w].video_id, "Cleaning up temporary files...")
    /\ Goto(w, "ready")
    /\ resp' = NoResponse
    /\ UNCHANGED <<db, problems, storage, dbUp, queue, pending, submitted, clock>>

\* a job that ends without writing its last entry
JobReadyKeepsEntry(w) ==
    /\ At(w, "ready")
    /\ Finish(w)
    /\ resp' = NoResponse
    /\ UNCHANGED <<db, problems, storage, dbUp, video_generation_status, queue, pending,
                   submitted, clock>>

\* the local file is removed (best effort) and the entry is replaced by the ready entry
JobReady(w) ==
    /\ At(w, "ready")
    /\ SetEntry(workers[w].video_id, ReadyEntry(workers[w].storage_url))
    /\ Finish(w)
    /\ resp' = NoResponse
    /\ UNCHANGED <<db, problems, storage, dbUp, queue, pending, submitted, clock>>

\* ------------------------------------------- GET /api/video-status/{video_id}
StatusResponse(video_id, st, progress, message) ==
    [op |-> "status", http |-> 200, video_id |-> video_id,
     status |-> st, progress |-> progress, message |-> message]
WithUrl(response, video_url) ==
    [f \in DOMAIN response \cup {"video_url"} |->
        IF f = "video_url" THEN video_url ELSE response[f]]

\* the body get_video_status returns in the current state
VideoStatus(video_id) ==
    IF video_id \in DOMAIN video_generation_status
    THEN LET status_info == video_generation_status[video_id]
             response == StatusResponse(video_id, status_info.status, status_info.progress,
                                        status_info.message)
         IN  IF status_info.status = "ready" /\ "storage_url" \in DOMAIN status_info
             THEN WithUrl(response, status_info.storage_url) ELSE response
    ELSE LET key == Parsed(video_id)
             existing_video ==
                 IF key.parts >= 3
                 THEN GetVideo(db, dbUp, key.title_slug, key.language, key.video_type)
                 ELSE None
         IN  IF existing_video # None
             THEN IF existing_video.storage_url # EmptyUrl
                  THEN WithUrl(StatusResponse(video_id, "ready", 100,
                                              "Video is ready for playback (cached)"),
                               existing_video.storage_url)
                  ELSE StatusResponse(video_id, "error", 0,
                                      "Video record found but storage URL missing")
             ELSE StatusResponse(video_id, "not_found", 0,
                                 "Video not found or generation not started")

\* a status poll that starts generation when it finds nothing for the id
GetVideoStatusSubmitting(video_id) ==
    /\ resp' = VideoStatus(video_id)
    /\ IF VideoStatus(video_id).status = "not_found"
       THEN SetEntry(video_id, StartingEntry)
       ELSE UNCHANGED video_generation_status
    /\ UNCHANGED <<db, problems, storage, dbUp, queue, workers, pending, submitted, clock>>

GetVideoStatus(video_id) ==
    /\ resp' = VideoStatus(video_id)
    /\ UNCHANGED <<db, problems, storage, dbUp, video_generation_status, queue, workers,
                   pending, submitted, clock>>

\* ------------------------------------------------- GET /api/video/{video_id}
\* RedirectResponse(url=...)
RedirectResponse(video_id, url) ==
    [op |-> "video", http |-> 307, video_id |-> video_id, location |-> url]

\* what get_video answers in the current state: the locations the program stores are
\* public URLs (they start with "http"), so the signed-URL branch is not taken
VideoFile(video_id) ==
    LET key == Parsed(video_id)
        video_record ==
            IF key.parts >= 3
            THEN GetVideo(db, dbUp, key.title_slug, key.language, key.video_type)
            ELSE None
    IN  IF key.parts < 3
        THEN HttpError("video", video_id, 400, "Invalid video ID format")
        ELSE IF video_record # None /\ video_record.storage_url # EmptyUrl
        THEN RedirectResponse(video_id, video_record.storage_url)
        ELSE IF CompletedNotStored(video_id)
        THEN RedirectResponse(video_id, video_generation_status[video_id].storage_url)
        ELSE IF InFlight(video_id)
        THEN HttpError("video", video_id, 202,
                       "Video is still being generated. Please check status endpoint.")
        ELSE IF /\ video_id \in DOMAIN video_generation_status
                /\ video_generation_status[video_id].status = "error"
        THEN HttpError("video", video_id, 500,
                       "Video generation failed. Please try generating again.")
        ELSE HttpError("video", video_id, 404,
                       "Video not found. It may still be generating or the request was invalid.")

GetVideoFile(video_id) ==
    /\ resp' = VideoFile(video_id)
    /\ UNCHANGED <<db, problems, storage, dbUp, video_generation_status, queue, workers,
                   pending, submitted, clock>>

\* ----------------------------------------------- DELETE /api/video/{video_id}
\* every HTTPException raised inside the try block is caught by "except Exception"
\* and answered as 500 "Video deletion failed: ..."
DeletionFailed(video_id, cause) ==
    [op |-> "delete", http |-> 500, video_id |-> video_id,
     detail |-> "Video deletion failed", cause |-> cause]

DeleteVideo(video_id) ==
    /\ IF ParsedForDelete(video_id).parts < 3
       THEN /\ resp' = DeletionFailed(video_id, "400: Invalid video ID format")
            /\ UNCHANGED <<db, storage>>
       ELSE LET video_type == ParsedForDelete(video_id).video_type
                language == ParsedForDelete(video_id).language
                problem_title == ParsedForDelete(video_id).problem_title
                video_record == GetVideo(db, dbUp, problem_title, language, video_type)
            IN  IF video_record = None
                THEN /\ resp' = DeletionFailed(video_id, "404: Video not found")
                     /\ UNCHANGED <<db, storage>>
                ELSE /\ \E removed \in BOOLEAN :
                            storage' = IF video_record.storage_url # EmptyUrl /\ removed
                                       THEN storage \ {video_record.storage_url} ELSE storage
                     /\ db' = DeleteVideoRows(db, dbUp, problem_title, language, video_type)
                     /\ resp' = IF DeleteVideoResult(db, dbUp, problem_title, language, video_type)
                                THEN [op |-> "delete", http |-> 200, video_id |-> video_id,
                                      detail |-> "Video deleted successfully"]
                                ELSE DeletionFailed(video_id, "500: Failed to delete video from database")
    /\ UNCHANGED <<problems, dbUp, video_generation_status, queue, workers, pending,
                   submitted, clock>>

\* ---------------------------------------------------- POST /api/cache/clear
\* the HTTPException for a False result is raised inside the try block and wrapped again
ClearCache ==
    /\ db' = ClearAllVideosRows(db, dbUp)
    /\ resp' = IF ClearAllVideosResult(db, dbUp)
               THEN [op |-> "clear", http |-> 200, detail |-> "Video cache cleared successfully"]
               ELSE [op |-> "clear", http |-> 500, detail |-> "Failed to clear cache"]
    /\ UNCHANGED <<problems, storage, dbUp, video_generation_status, queue, workers,
                   pending, submitted, clock>>

Next ==
    \/ \E h \in Handlers, request \in Requests : GenStart(h, request)
    \/ \E h \in Handlers : GenFinish(h)
    \/ \E w \in 1..MaxWorkers : JobStart(w)
    \/ \E w \in 1..MaxWorkers : JobProgress20(w)
    \/ \E w \in 1..MaxWorkers : JobMessage20(w)
    \/ \E w \in 1..MaxWorkers : JobSolution(w)
    \/ \E w \in 1..MaxWorkers : JobMessage50(w)
    \/ \E w \in 1..MaxWorkers : JobRender(w)
    \/ \E w \in 1..MaxWorkers : JobMessage70(w)
    \/ \E w \in 1..MaxWorkers : JobUpload(w)
    \/ \E w \in 1..MaxWorkers : JobMessage90(w)
    \/ \E w \in 1..MaxWorkers : JobPersist(w)
    \/ \E w \in 1..MaxWorkers : JobMessage95(w)
    \/ \E w \in 1..MaxWorkers : JobReady(w)
    \/ \E video_id \in VideoIds : GetVideoStatus(video_id)
    \/ \E video_id \in VideoIds : GetVideoFile(video_id)
    \/ \E video_id \in VideoIds : DeleteVideo(video_id)

Spec == Init /\ [][Next]_vars


\* the rows of a key, and the key a request is for
RowsFor(key) == MatchRows(db, key.title_slug, key.language, key.video_type)
KeyOfRequest(request) ==
    [title_slug |-> NormalizeText(request.problem_title), language |-> request.language,
     video_type |-> request.video_type]

\* The executor's threads are scheduled: a queued work item is taken when a thread is
\* idle, and a running job takes its next step (every call a job makes returns or
\* raises; the render is cut off after its timeout).  Nothing is assumed of requests.
JobStep(w) ==
    \/ JobProgress20(w) \/ JobMessage20(w) \/ JobSolution(w) \/ JobMessage50(w)
    \/ JobRender(w) \/ JobMessage70(w) \/ JobUpload(w) \/ JobMessage90(w)
    \/ JobPersist(w) \/ JobMessage95(w) \/ JobReady(w)
\* generation requests and jobs, started on a table without a row for the requested key
\* (the case in which a request is answered generating); what a poll would answer in a
\* state is VideoStatus, which no poll changes
LiveInit ==
    /\ Init
    /\ \A request \in Requests : RowsFor(KeyOfRequest(request)) = {}
LiveNext ==
    \/ \E h \in Handlers, request \in Requests : GenStart(h, request)
    \/ \E h \in Handlers : GenFinish(h)
    \/ \E w \in 1..MaxWorkers : JobStart(w)
    \/ \E w \in 1..MaxWorkers : JobStep(w)
LiveSpec ==
    /\ LiveInit
    /\ [][LiveNext]_vars
    /\ WF_vars(\E w \in 1..MaxWorkers : JobStart(w))
    /\ \A w \in 1..MaxWorkers : WF_vars(JobStep(w))

\* two concurrent generation requests and their jobs, no cached video for the requested
\* key at start-up, nothing assumed of the scheduling
JobsSpec == LiveInit /\ [][LiveNext]_vars

\* all endpoints and jobs, one generation request at a time
SerialNext ==
    \/ \E request \in Requests : GenStart("h1", request)
    \/ GenFinish("h1")
    \/ \E w \in 1..MaxWorkers : JobStart(w)
    \/ \E w \in 1..MaxWorkers : JobStep(w)
    \/ \E video_id \in VideoIds : GetVideoStatus(video_id)
    \/ \E video_id \in VideoIds : GetVideoFile(video_id)
    \/ \E video_id \in VideoIds : DeleteVideo(video_id)
SerialSpec == Init /\ [][SerialNext]_vars


\* generation requests with any body, sent one after the other, and the jobs they start
InputRequests ==
    {Request(t, python, explanation) : t \in InputTitles}
    \cup {Request(TwoSumTitle, ruby, explanation), Request(TwoSumTitle, python, summary)}
InputNext ==
    \/ \E request \in InputRequests : PostGenerateVideo("h1", request)
    \/ GenFinish("h1")
    \/ \E w \in 1..MaxWorkers : JobStart(w)
    \/ \E w \in 1..MaxWorkers : JobStep(w)
InputSpec == LiveInit /\ [][InputNext]_vars


\* generation requests, one after the other, for every title up to MaxTitleLen characters
\* over a lower-case letter, an upper-case letter, space, hyphen and underscore
TitleAlphabet == {"a", "B", " ", "-", "_"}
BoundedTitles == UNION {[1..n -> TitleAlphabet] : n \in 0..MaxTitleLen}
NormalizeNext ==
    \/ \E title \in BoundedTitles : PostGenerateVideo("h1", Request(title, python, explanation))
    \/ GenFinish("h1")
NormalizeSpec == LiveInit /\ [][NormalizeNext]_vars


\* generation requests, one after the other, for every title up to MaxSeparatorTitleLen
\* characters over an upper-case letter, space and hyphen
SeparatorAlphabet == {"B", " ", "-"}
SeparatorTitles == UNION {[1..n -> SeparatorAlphabet] : n \in 0..MaxSeparatorTitleLen}
SeparatorNext ==
    \/ \E title \in SeparatorTitles : PostGenerateVideo("h1", Request(title, python, explanation))
    \/ GenFinish("h1")
SeparatorSpec == LiveInit /\ [][SeparatorNext]_vars


\* generation requests, one after the other, for every accepted language and video type
\* and for titles of one or two words joined by an underscore, the words being a
\* language, a video type and the parts of a video type
KeyWords == {<<"a">>, python, <<"brute">>, <<"force">>, optimal}
KeyTitles == KeyWords \cup {x \o <<"_">> \o y : x \in KeyWords, y \in KeyWords}
KeyRequests ==
    {Request(t, l, v) : t \in KeyTitles, l \in RequestLanguages, v \in RequestVideoTypes}
KeyNext ==
    \/ \E request \in KeyRequests : PostGenerateVideo("h1", request)
    \/ GenFinish("h1")
KeySpec == LiveInit /\ [][KeyNext]_vars


\* generation requests for one key under two titles with the same slug, "Two Sum" and
\* "two_sum", and the jobs they start
AliasTitles == {TwoSumTitle, NormalizeText(TwoSumTitle)}
AliasRequests == {Request(t, python, explanation) : t \in AliasTitles}
AliasNext ==
    \/ \E request \in AliasRequests : GenStart("h1", request)
    \/ GenFinish("h1")
    \/ \E w \in 1..MaxWorkers : JobStart(w)
    \/ \E w \in 1..MaxWorkers : JobStep(w)
AliasSpec == LiveInit /\ [][AliasNext]_vars


\* generation requests, their jobs, and DELETE /api/video for the ids of the keys and
\* for ids of two parts and of one part
ShortIds == {NormalizeText(TwoSumTitle), python}
DeleteIds == VideoIds \cup ShortIds
DeleteNext ==
    \/ \E request \in Requests : GenStart("h1", request)
    \/ GenFinish("h1")
    \/ \E w \in 1..MaxWorkers : JobStart(w)
    \/ \E w \in 1..MaxWorkers : JobStep(w)
    \/ \E video_id \in DeleteIds : DeleteVideo(video_id)
DeleteSpec == Init /\ [][DeleteNext]_vars


\* the database stops answering, or answers again: while it does not, every call of
\* DatabaseService raises inside its try block and returns None (False for deletes)
DatabaseOutage ==
    /\ dbUp' = ~dbUp
    /\ resp' = NoResponse
    /\ UNCHANGED <<db, problems, storage, video_generation_status, queue, workers,
                   pending, submitted, clock>>
\* generation requests, one after the other, and their jobs, with a database that
\* comes and goes
OutageNext ==
    \/ \E request \in Requests : GenStart("h1", request)
    \/ GenFinish("h1")
    \/ \E w \in 1..MaxWorkers : JobStart(w)
    \/ \E w \in 1..MaxWorkers : JobStep(w)
    \/ DatabaseOutage
OutageSpec == Init /\ [][OutageNext]_vars


\* the arguments DatabaseService is called with: titles as slugs and in display form
ServiceTitles == {Normalize(TwoSumTitle), TwoSumTitle}
ServiceLanguages == {python}
ServiceVideoTypes == {explanation, brute_force}
ServiceUrls ==
    {StorageUrl(Normalize(TwoSumTitle), l, v, MaxClock) :
        l \in ServiceLanguages, v \in ServiceVideoTypes}
\* what a call of DatabaseService returned
ServiceResult(op, problem_title, language, video_type, result) ==
    [op |-> op, http |-> 0, problem_title |-> problem_title, language |-> language,
     video_type |-> video_type, result |-> result]

\* DatabaseService.create_video(problem_title, language, video_type, storage_url)
CallCreateVideo(problem_title, language, video_type, storage_url) ==
    /\ db' = CreateVideoRows(db, dbUp, problem_title, language, video_type, storage_url)
    /\ resp' = ServiceResult("create_video", problem_title, language, video_type,
                   CreateVideoResult(db, dbUp, problem_title, language, video_type, storage_url))
    /\ UNCHANGED <<problems, storage, dbUp, video_generation_status, queue, workers,
                   pending, submitted, clock>>

\* DatabaseService.delete_video(problem_title, language, video_type)
CallDeleteVideo(problem_title, language, video_type) ==
    /\ db' = DeleteVideoRows(db, dbUp, problem_title, language, video_type)
    /\ resp' = ServiceResult("delete_video", problem_title, language, video_type,
                   DeleteVideoResult(db, dbUp, problem_title, language, video_type))
    /\ UNCHANGED <<problems, storage, dbUp, video_generation_status, queue, workers,
                   pending, submitted, clock>>

\* DatabaseService.get_video(problem_title, language, video_type)
CallGetVideo(problem_title, language, video_type) ==
    /\ resp' = ServiceResult("get_video", problem_title, language, video_type,
                   GetVideo(db, dbUp, problem_title, language, video_type))
    /\ UNCHANGED <<db, problems, storage, dbUp, video_generation_status, queue, workers,
                   pending, submitted, clock>>

ServiceNext ==
    \/ \E t \in ServiceTitles, l \in ServiceLanguages, v \in ServiceVideoTypes,
          url \in ServiceUrls : CallCreateVideo(t, l, v, url)
    \/ \E t \in ServiceTitles, l \in ServiceLanguages, v \in ServiceVideoTypes :
          CallDeleteVideo(t, l, v)
    \/ \E t \in ServiceTitles, l \in ServiceLanguages, v \in ServiceVideoTypes :
          CallGetVideo(t, l, v)
    \/ DatabaseOutage
ServiceSpec == Init /\ [][ServiceNext]_vars


\* generation requests for "Two Sum" and for a blank title, one after the other, their
\* jobs, DELETE /api/video for the ids of both keys, and the purge of the cache
PurgeRequests ==
    {Request(TwoSumTitle, python, explanation), Request(BlankTitle, python, explanation)}
PurgeIds == {IdOf(KeyOfRequest(request)) : request \in PurgeRequests}
PurgeNext ==
    \/ \E request \in PurgeRequests : GenStart("h1", request)
    \/ GenFinish("h1")
    \/ \E w \in 1..MaxWorkers : JobStart(w)
    \/ \E w \in 1..MaxWorkers : JobStep(w)
    \/ \E video_id \in PurgeIds : DeleteVideo(video_id)
    \/ ClearCache
PurgeSpec == Init /\ [][PurgeNext]_vars


\* generation requests for two keys, one after the other, up to MaxPoolJobs submissions,
\* and their jobs on the executor's MaxWorkers threads
PoolRequests == {Request(TwoSumTitle, python, v) : v \in {explanation, optimal}}
PoolNext ==
    \/ \E request \in PoolRequests : GenStart("h1", request)
    \/ GenFinishWithin("h1", MaxPoolJobs)
    \/ \E w \in 1..MaxWorkers : JobStart(w)
    \/ \E w \in 1..MaxWorkers : JobStep(w)
PoolSpec == LiveInit /\ [][PoolNext]_vars


\* ================================================================== claims
\* the jobs for an id that are queued or running
QueuedFor(video_id) == {i \in 1..Len(queue) : queue[i].video_id = video_id}
RunningFor(video_id) ==
    {w \in 1..MaxWorkers : workers[w] # Idle /\ workers[w].video_id = video_id}
Terminal == {"ready", "error"}

\* C1 (original claim, refuted): at most one background job per key is queued or
\* running at any time, whatever the interleaving of generate-video requests.
C1_SingleFlight ==
    \A video_id \in VideoIds :
        Cardinality(QueuedFor(video_id)) + Cardinality(RunningFor(video_id)) <= 1

\* C2: when the videos table holds a row with a non-empty storage_url for the key of a
\* request, generate_video answers ready with that storage_url in its first step and
\* neither goes on to the metadata fetch, nor submits a job, nor changes the status
\* dictionary or the table, whatever the status dictionary holds (database reachable).
C2_CacheHitShortCircuit ==
    [][\A h \in Handlers, request \in Requests :
        (pending[h] = None /\ workers' = workers /\ resp'.op \in {"none", "generate"})
        => \A row \in RowsFor(KeyOfRequest(request)) :
            (dbUp /\ row.storage_url # EmptyUrl /\ GenStart(h, request))
            => /\ resp' = VideoResponse(request, IdOf(KeyOfRequest(request)),
                                        row.storage_url, "ready")
               /\ UNCHANGED <<db, problems, storage, video_generation_status, queue,
                              workers, pending, submitted>>]_vars
\* a cache hit was answered while the status dictionary has an entry for the same id
C2_Witness ==
    /\ resp.op = "generate" /\ resp.http = 200 /\ resp.status = "ready"
    /\ resp.video_id \in DOMAIN video_generation_status
    /\ \E row \in RowsFor(KeyOfRequest(resp.request)) : row.storage_url = resp.video_url

\* a job ends in this step after a failure at some stage (the last stage, persistence,
\* has failed when create_video returned None)
EndsAfterFailure(w) ==
    /\ workers[w] # Idle
    /\ workers'[w] = Idle
    /\ (workers[w].pc = "ready" => workers[w].video_record = None)
FailsEarly(w) ==
    /\ workers[w] # Idle
    /\ workers'[w] = Idle
    /\ workers[w].pc # "ready"
PersistFails(w) ==
    /\ workers[w] # Idle
    /\ workers[w].pc = "persist"
    /\ workers'[w] # Idle
    /\ workers'[w].pc = "message95"
    /\ workers'[w].video_record = None

\* C3 (original claim, refuted): a job that failed at any stage, Cache Entry persistence
\* included, ends with its status entry error with a non-empty message, and created no row.
C3_Original ==
    [][\A w \in 1..MaxWorkers :
        EndsAfterFailure(w)
        => /\ video_generation_status'[workers[w].video_id].status = "error"
           /\ video_generation_status'[workers[w].video_id].message # ""
           /\ db' = db]_vars

\* C3 (amended): a failure at code generation, rendering, the rendered-file check or
\* upload ends the job in that step with an error entry with a non-empty message and no
\* row created; a failure of persistence creates no row either, but the job goes on and
\* ends by writing the ready entry with the uploaded location.
C3_FailureHandling ==
    [][\A w \in 1..MaxWorkers :
        /\ FailsEarly(w)
           => /\ video_generation_status'[workers[w].video_id].status = "error"
              /\ video_generation_status'[workers[w].video_id].progress = 0
              /\ video_generation_status'[workers[w].video_id].message # ""
              /\ "storage_url" \notin DOMAIN video_generation_status'[workers[w].video_id]
              /\ db' = db
        /\ PersistFails(w) => db' = db
        /\ (EndsAfterFailure(w) /\ workers[w].pc = "ready")
           => /\ video_generation_status'[workers[w].video_id] = ReadyEntry(workers[w].storage_url)
              /\ db' = db]_vars
\* a job whose upload failed has just ended: error entry, nothing in the table for the key
C3_Witness ==
    /\ \A w \in 1..MaxWorkers : workers[w] = Idle
    /\ queue = <<>>
    /\ \E key \in ArtifactKeys :
        /\ IdOf(key) \in DOMAIN video_generation_status
        /\ video_generation_status[IdOf(key)] = ErrorEntry(UploadFailedMessage)
        /\ RowsFor(key) = {}

\* C4 (original claim, refuted): between two polls of video-status for an id, the first of
\* which is not terminal, progress does not decrease unless the second reports error.
C4_ProgressMonotonic ==
    [][\A video_id \in VideoIds :
        (VideoStatus(video_id).status \notin Terminal /\ VideoStatus(video_id)'.status # "error")
        => VideoStatus(video_id)'.progress >= VideoStatus(video_id).progress]_vars

\* C5 (original claim, refuted): when a row with non-empty location L exists for a key,
\* video-status for the key's id reports neither error nor not_found nor another video_url.
C5_CacheWins ==
    \A key \in ArtifactKeys : \A row \in RowsFor(key) :
        (dbUp /\ row.storage_url # EmptyUrl)
        => /\ VideoStatus(IdOf(key)).status \notin {"error", "not_found"}
           /\ "video_url" \in DOMAIN VideoStatus(IdOf(key))
              => VideoStatus(IdOf(key)).video_url = row.storage_url

\* C6: when generate_video runs for a key whose status entry is generating and that has
\* no row in the videos table, it answers generating with the same video_id and the
\* status URL of that id, and no job is submitted (nor a metadata fetch started).
C6_InFlightDedup ==
    [][\A h \in Handlers, request \in Requests :
        LET video_id == IdOf(KeyOfRequest(request))
        IN  (/\ pending[h] = None /\ workers' = workers /\ resp'.op \in {"none", "generate"}
             /\ RowsFor(KeyOfRequest(request)) = {}
             /\ video_id \in DOMAIN video_generation_status
             /\ video_generation_status[video_id].status = "generating"
             /\ GenStart(h, request))
            => /\ resp' = VideoResponse(request, video_id, StatusUrl(video_id), "generating")
               /\ UNCHANGED <<db, video_generation_status, queue, workers, pending,
                              submitted>>]_vars
\* the in-flight answer was given while the only job for the id is running
C6_Witness ==
    /\ resp.op = "generate" /\ resp.http = 200 /\ resp.status = "generating"
    /\ resp.video_url = StatusUrl(resp.video_id)
    /\ queue = <<>> /\ submitted = 1
    /\ Cardinality(RunningFor(resp.video_id)) = 1
    /\ video_generation_status[resp.video_id].status = "generating"
    /\ RowsFor(KeyOfRequest(resp.request)) = {}

\* C7: when the videos table returns a row with an empty storage_url for the key,
\* generate_video removes the row and goes on as for a miss: the in-flight answer, the
\* finished-job answer, or on to the metadata fetch (whose return submits the job).
C7_SelfHealing ==
    [][\A h \in Handlers, request \in Requests :
        LET key == KeyOfRequest(request)
            video_id == IdOf(key)
            entry == video_generation_status[video_id]
        IN  (/\ pending[h] = None /\ workers' = workers /\ resp'.op \in {"none", "generate"}
             /\ dbUp
             /\ \E row \in RowsFor(key) : row.storage_url = EmptyUrl
             /\ GenStart(h, request))
            => /\ db' = db \ RowsFor(key)
               /\ IF video_id \in DOMAIN video_generation_status /\ entry.status = "generating"
                  THEN /\ resp' = VideoResponse(request, video_id, StatusUrl(video_id), "generating")
                       /\ pending' = pending
                  ELSE IF /\ video_id \in DOMAIN video_generation_status
                          /\ entry.status = "ready" /\ "storage_url" \in DOMAIN entry
                  THEN /\ resp' = VideoResponse(request, video_id, entry.storage_url, "ready")
                       /\ pending' = pending
                  ELSE /\ pending'[h] # None
                       /\ pending'[h].request = request
                       /\ resp' = NoResponse
               /\ UNCHANGED <<queue, workers, submitted, video_generation_status>>]_vars
\* a handler found the row without location, removed it and is at the metadata fetch
C7_Witness ==
    \E h \in Handlers :
        /\ pending[h] # None
        /\ pending[h].existing_video # None
        /\ pending[h].existing_video.storage_url = EmptyUrl
        /\ RowsFor(KeyOfRequest(pending[h].request)) = {}

\* C8: the videos table never holds two rows with the same (problem_title, language,
\* video_type), also when two jobs for one key both run DatabaseService.create_video.
C8_OneEntryPerKey ==
    \A r1 \in db, r2 \in db :
        (r1.problem_title = r2.problem_title /\ r1.language = r2.language
         /\ r1.video_type = r2.video_type) => r1 = r2
\* two jobs for one key with different uploads are both past create_video
C8_Witness ==
    \E w1 \in 1..MaxWorkers, w2 \in 1..MaxWorkers :
        /\ w1 # w2
        /\ workers[w1] # Idle /\ workers[w2] # Idle
        /\ workers[w1].video_id = workers[w2].video_id
        /\ workers[w1].pc \in {"message95", "ready"}
        /\ workers[w2].pc \in {"message95", "ready"}
        /\ workers[w1].storage_url # workers[w2].storage_url
        /\ workers[w1].video_record # None
        /\ workers[w2].video_record = None

\* C9 (original claim, refuted): right after DELETE /api/video/{video_id} answered
\* success for the id of a key, the videos table has no row for that key.
C9_DeleteRemovesEntry ==
    \A key \in ArtifactKeys :
        (resp.op = "delete" /\ resp.http = 200 /\ resp.video_id = IdOf(key))
        => RowsFor(key) = {}

\* what the claim expects get_video_status to answer for the id of a key
ExpectedStatus(key) ==
    LET video_id == IdOf(key)
        status_info == video_generation_status[video_id]
        row == CHOOSE r \in RowsFor(key) : TRUE
    IN  IF video_id \in DOMAIN video_generation_status
        THEN /\ VideoStatus(video_id).status = status_info.status
             /\ VideoStatus(video_id).progress = status_info.progress
             /\ VideoStatus(video_id).message = status_info.message
        ELSE IF RowsFor(key) # {}
        THEN /\ VideoStatus(video_id).status = "ready"
             /\ VideoStatus(video_id).progress = 100
             /\ "video_url" \in DOMAIN VideoStatus(video_id)
             /\ VideoStatus(video_id).video_url = row.storage_url
        ELSE VideoStatus(video_id).status = "not_found"

\* C10 (original claim, refuted): video-status answers from the status dictionary when it
\* has the id, else ready/100/location from the row of the key, else not_found.
C10_StatusLookupOrder ==
    \A key \in ArtifactKeys : dbUp => ExpectedStatus(key)

\* C11: a step of GET /api/video-status/{id} or of GET /api/video/{id} submits no job and
\* changes neither the status dictionary nor the videos table (nor a handler's frame or
\* a running job), in whatever state it is taken.
C11_ReadOnlyEndpoints ==
    [][\A video_id \in VideoIds :
        (/\ resp'.op \in {"status", "video"}
         /\ GetVideoStatus(video_id) \/ GetVideoFile(video_id))
        => UNCHANGED <<db, video_generation_status, queue, workers, pending, submitted>>]_vars
\* an id nobody knows was asked for and answered, and nothing has been started for it
C11_Witness ==
    /\ resp.op \in {"status", "video"}
    /\ resp.video_id \notin DOMAIN video_generation_status
    /\ \A key \in ArtifactKeys : IdOf(key) = resp.video_id => RowsFor(key) = {}
    /\ queue = <<>>
    /\ \A w \in 1..MaxWorkers : workers[w] = Idle
    /\ submitted = 0

\* the metadata fetch of this step found the problem (it is told by what the fetch
\* returns and by what it stores in the problems table)
MetadataFound(request) ==
    \E netOk \in BOOLEAN :
        /\ FetchProblemDetails(problems, dbUp, netOk, request.problem_title) # None
        /\ problems' = FetchProblemRows(problems, dbUp, netOk, request.problem_title)

\* C12: generate_video for a key without row and without status entry goes on to the
\* metadata fetch without answering; when the fetch finds the problem it answers
\* generating with video_id = slug_language_type (two_sum_python_explanation for
\* "Two Sum"/python/explanation) and the status URL, and submits exactly one job for it.
C12_MissSubmitsOneJob ==
    [][\A h \in Handlers, request \in Requests :
        LET key == KeyOfRequest(request)
            video_id == key.title_slug \o <<"_">> \o request.language \o <<"_">> \o request.video_type
        IN  /\ (/\ pending[h] = None
                /\ workers' = workers
                /\ resp'.op \in {"none", "generate"}
                /\ RowsFor(key) = {}
                /\ video_id \notin DOMAIN video_generation_status
                /\ GenStart(h, request))
               => /\ pending'[h] # None
                  /\ pending'[h].request = request
                  /\ resp' = NoResponse
                  /\ UNCHANGED <<queue, submitted, video_generation_status>>
            /\ (/\ pending[h] # None
                /\ pending[h].request = request
                /\ resp'.op = "generate"
                /\ GenFinish(h)
                /\ MetadataFound(request))
               => /\ resp' = VideoResponse(request, video_id, StatusUrl(video_id), "generating")
                  /\ (request = Request(TwoSumTitle, python, explanation)
                      => resp'.video_id = <<"t", "w", "o", "_", "s", "u", "m", "_", "p", "y", "t", "h", "o", "n", "_", "e", "x", "p", "l", "a", "n", "a", "t", "i", "o", "n">>)
                  /\ Len(queue') = Len(queue) + 1
                  /\ SubSeq(queue', 1, Len(queue)) = queue
                  /\ queue'[Len(queue')].video_id = video_id
                  /\ queue'[Len(queue')].request = request
                  /\ submitted' = submitted + 1
                  /\ UNCHANGED video_generation_status]_vars
\* the first request for a key without row and entry was answered generating, one job queued
C12_Witness ==
    /\ resp.op = "generate" /\ resp.http = 200 /\ resp.status = "generating"
    /\ resp.video_url = StatusUrl(resp.video_id)
    /\ submitted = 1 /\ Len(queue) = 1
    /\ queue[1].video_id = resp.video_id
    /\ video_generation_status = <<>>
    /\ RowsFor(KeyOfRequest(resp.request)) = {}

\* C17 (original claim, refuted): an entry that is ready or error changes only when a job
\* for its id starts and overwrites it with the starting entry.
C17_StatusTransitions ==
    [][\A video_id \in VideoIds :
        (/\ video_id \in DOMAIN video_generation_status
         /\ video_generation_status[video_id].status \in Terminal
         /\ video_generation_status'[video_id] # video_generation_status[video_id])
        => /\ \E w \in 1..MaxWorkers : JobStart(w)
           /\ Head(queue).video_id = video_id
           /\ video_generation_status'[video_id] = StartingEntry]_vars

\* C18 (original claim, refuted): every entry of the status dictionary has status,
\* progress and message, progress in 0..100, and a storage_url exactly when its status is
\* ready, in which case progress is 100.
C18_WellFormedEntries ==
    \A video_id \in DOMAIN video_generation_status :
        LET entry == video_generation_status[video_id]
        IN  /\ {"status", "progress", "message"} \subseteq DOMAIN entry
            /\ entry.status \in {"generating", "ready", "error"}
            /\ entry.progress \in 0..100
            /\ ("storage_url" \in DOMAIN entry) <=> (entry.status = "ready")
            /\ entry.status = "ready" => entry.progress = 100

\* what the claim expects GET /api/video/{id} to answer for the id of a key
ExpectedVideoFile(key) ==
    LET video_id == IdOf(key)
        located == {r \in RowsFor(key) : r.storage_url # EmptyUrl}
        entry == video_generation_status[video_id]
    IN  IF located # {}
        THEN \E r \in located : VideoFile(video_id) = RedirectResponse(video_id, r.storage_url)
        ELSE IF video_id \in DOMAIN video_generation_status
        THEN /\ (entry.status = "ready" /\ "storage_url" \in DOMAIN entry)
                => VideoFile(video_id) = RedirectResponse(video_id, entry.storage_url)
             /\ entry.status = "generating" => VideoFile(video_id).http = 202
             /\ entry.status = "error" => VideoFile(video_id).http = 500
        ELSE RowsFor(key) = {} => VideoFile(video_id).http = 404

\* C20 (original claim, refuted): GET /api/video/{id} redirects to the location of the row
\* of the key when there is one, else to the storage_url of a ready entry, answers 202
\* for a generating entry, 500 for an error entry and 404 when neither knows the id.
C20_VideoRetrieval ==
    \A key \in ArtifactKeys : dbUp => ExpectedVideoFile(key)

\* the poll of an id answers ready, progress 100 and this video_url
ReadyPoll(video_id, url) ==
    /\ VideoStatus(video_id).status = "ready"
    /\ VideoStatus(video_id).progress = 100
    /\ "video_url" \in DOMAIN VideoStatus(video_id)
    /\ VideoStatus(video_id).video_url = url
\* the job on thread w, for this id, has got this URL back from the upload
Uploaded(w, video_id, url) ==
    /\ workers[w] # Idle
    /\ workers[w].video_id = video_id
    /\ workers[w].storage_url = url
\* the job on thread w has not yet got a URL back from the upload
BeforeUpload(w) ==
    /\ workers[w] # Idle
    /\ workers[w].storage_url = None

\* C13: a job submitted for an id (generate-video answered generating) is started; a
\* started job either fails at a stage or gets a URL from the upload; and once the upload
\* has returned a URL (so that every stage that can fail the job has succeeded) the poll
\* of the id comes to answer ready, progress 100 and that URL.
C13_EventuallyReady ==
    /\ \A request \in Requests :
        (QueuedFor(IdOf(KeyOfRequest(request))) # {})
            ~> (IdOf(KeyOfRequest(request)) \in DOMAIN video_generation_status)
    /\ \A w \in 1..MaxWorkers :
        BeforeUpload(w) ~> (workers[w] = Idle \/ workers[w].storage_url # None)
    /\ \A w \in 1..MaxWorkers, request \in Requests, timestamp \in 1..MaxClock :
        LET key == KeyOfRequest(request)
            url == StorageUrl(key.title_slug, key.language, key.video_type, timestamp)
        IN  Uploaded(w, IdOf(key), url) ~> ReadyPoll(IdOf(key), url)
\* a job went through every stage and the poll of its id answers ready with its upload
C13_Witness ==
    \E request \in Requests, timestamp \in 1..MaxClock :
        LET key == KeyOfRequest(request)
            url == StorageUrl(key.title_slug, key.language, key.video_type, timestamp)
        IN  /\ ReadyPoll(IdOf(key), url)
            /\ submitted = 1
            /\ url \in storage
            /\ \A w \in 1..MaxWorkers : workers[w] = Idle

\* the jobs, queued or running, that were submitted for a request with this title
JobsForTitle(problem_title) ==
    {i \in 1..Len(queue) : queue[i].request.problem_title = problem_title}
    \cup {w \in {x \in 1..MaxWorkers : workers[x] # Idle} :
              workers[w].request.problem_title = problem_title}

\* C14: when the metadata fetch of generate_video finds no problem for the title, the
\* answer is 404 "Problem not found", no job is submitted and the status dictionary is
\* unchanged; and for a title that no source knows there is never a job or a status entry.
C14_NotFound ==
    /\ [][\A h \in Handlers, request \in InputRequests :
            (/\ pending[h] # None
             /\ pending[h].request = request
             /\ resp'.op = "generate"
             /\ GenFinish(h)
             /\ ~MetadataFound(request))
            => /\ resp' = HttpError("generate", request, 404, "Problem not found")
               /\ UNCHANGED <<queue, workers, submitted, video_generation_status>>]_vars
    /\ [](/\ JobsForTitle(UnknownTitle) = {}
          /\ \A request \in InputRequests :
                request.problem_title = UnknownTitle
                => IdOf(KeyOfRequest(request)) \notin DOMAIN video_generation_status)
\* the unknown title was answered 404 while a job for another title is running
C14_Witness ==
    /\ resp.op = "generate" /\ resp.http = 404
    /\ resp.subject.problem_title = UnknownTitle
    /\ JobsForTitle(TwoSumTitle) # {}
    /\ video_generation_status # <<>>

\* C15: a request whose language is not python, java or cpp, or whose video_type is not
\* explanation, brute_force or optimal, is answered with a validation error (422) and
\* nothing else happens: no table is read or written, no metadata fetch is started, the
\* status dictionary and the executor are untouched.
C15_EnumValidation ==
    [][\A h \in Handlers, request \in InputRequests :
        (/\ \/ request.language \notin {python, java, cpp}
            \/ request.video_type \notin {explanation, brute_force, optimal}
         /\ resp'.op = "generate"
         /\ PostGenerateVideo(h, request))
        => /\ resp' = HttpError("generate", request, 422, "validation error")
           /\ UNCHANGED <<db, problems, storage, video_generation_status, queue, workers,
                          pending, submitted>>]_vars
\* a request with language ruby was rejected while a job is running
C15_Witness ==
    /\ resp.op = "generate" /\ resp.http = 422
    /\ resp.subject.language = ruby
    /\ \E w \in 1..MaxWorkers : workers[w] # Idle

\* C16 (original claim, refuted): a request whose title is empty after trimming is
\* answered with a validation error; it never gets to the metadata fetch, no job is
\* submitted for it and no status entry exists for its id.
C16_EmptyTitleRejected ==
    \A request \in {r \in InputRequests : Strip(r.problem_title) = <<>>} :
        /\ \A h \in Handlers : pending[h] # None => pending[h].request # request
        /\ JobsForTitle(request.problem_title) = {}
        /\ IdOf(KeyOfRequest(request)) \notin DOMAIN video_generation_status
        /\ (resp.op = "generate" /\ resp.http = 200) => resp.request # request
        /\ (resp.op = "generate" /\ resp.http # 200 /\ resp.subject = request)
           => resp.http \in {400, 422}

\* C19: the slug generate_video computes from a title is a fixed point of the
\* normalisation (strip, lower case, spaces and hyphens to underscores): normalising it
\* again, as DatabaseService does with the slug it is handed, returns the same slug.
C19_NormalizeIdempotent ==
    \A h \in Handlers :
        pending[h] # None
        => /\ pending[h].title_slug = NormalizeText(pending[h].request.problem_title)
           /\ NormalizeText(pending[h].title_slug) = pending[h].title_slug
\* a title with an upper-case letter, a hyphen and a space to strip has been normalised
C19_Witness ==
    \E h \in Handlers :
        /\ pending[h] # None
        /\ pending[h].request.problem_title = <<" ", "B", "-">>
        /\ pending[h].title_slug = <<"b", "_">>

\* C21 (original claim, refuted): while the database is unreachable, generate_video
\* answers every request with a server error: it does not take the failed lookup for a
\* cache miss and does not go on to the metadata fetch and the job submission.
C21_OutageReported ==
    [][\A request \in Requests :
        (~dbUp /\ pending["h1"] = None /\ resp'.op \in {"none", "generate"}
              /\ GenStart("h1", request))
        => /\ resp'.op = "generate"
           /\ resp'.http \in {500, 503}
           /\ pending' = pending]_vars

\* C22 (original claim, refuted): DatabaseService.delete_video returns true exactly when
\* a row matched its arguments and was removed, false when none matched; a second call
\* with the same arguments removes nothing more.
C22_DeleteResult ==
    [][\A t \in ServiceTitles, l \in ServiceLanguages, v \in ServiceVideoTypes :
        CallDeleteVideo(t, l, v)
        => /\ resp'.result = (MatchRows(db, t, l, v) # {} /\ MatchRows(db', t, l, v) = {})
           /\ DeleteVideoRows(db', dbUp, t, l, v) = db']_vars

\* the step creates the row: it is the persist step of a job, and the row has the job's
\* key and the location the job's upload returned
CreatedByPersist(row) ==
    \E w \in {x \in 1..MaxWorkers : workers[x] # Idle} :
        /\ workers[w].pc = "persist"
        /\ workers[w].storage_url # None
        /\ row = VideoRow(workers[w].title_slug, workers[w].request.language,
                          workers[w].request.video_type, workers[w].storage_url)
        /\ JobPersist(w)
\* the step is the purge of the cache
RemovedByPurge == resp'.op = "clear" /\ ClearCache
\* the step is generate_video deleting the row of its key, which has no location
RemovedByRegenerate(row) ==
    /\ row.storage_url = EmptyUrl
    /\ \E request \in PurgeRequests :
        /\ KeyOfRequest(request) = [title_slug |-> row.problem_title,
                                    language |-> row.language, video_type |-> row.video_type]
        /\ GenStart("h1", request)
\* the step is DELETE /api/video/{video_id}
RemovedByDelete == resp'.op = "delete" /\ \E video_id \in PurgeIds : DeleteVideo(video_id)
\* no key has its row replaced in one step
NoRowReplaced ==
    \A r1 \in db \ db', r2 \in db' \ db :
        <<r1.problem_title, r1.language, r1.video_type>>
            # <<r2.problem_title, r2.language, r2.video_type>>

C24_QueuedJobVisible ==
    \A video_id \in VideoIds :
        (QueuedFor(video_id) # {} /\ RunningFor(video_id) = {})
        => VideoStatus(video_id).status = "generating"

\* the progress values a job writes while generating, each with the message of its step
StepPairs ==
    {<<0, "Starting video generation...">>, <<20, "Generating solution code...">>,
     <<50, "Creating video animation...">>, <<70, "Uploading video to storage...">>,
     <<90, "Saving video record to database...">>,
     <<95, "Cleaning up temporary files...">>}

\* C25 (original claim, refuted): no reader sees a torn status entry: a video-status
\* answer for an entry that is generating carries a progress and a message written by
\* the same pipeline step.
C25_NoTornEntry ==
    (resp.op = "status" /\ resp.status = "generating")
    => <<resp.progress, resp.message>> \in StepPairs

\* a job ends in this step by marking its entry ready
MarksReady(w) ==
    /\ workers[w] # Idle
    /\ workers[w].pc = "ready"
    /\ workers'[w] = Idle
\* the rows of the job's key after the step
RowsOfJob(w) ==
    MatchRows(db', workers[w].title_slug, workers[w].request.language,
              workers[w].request.video_type)

\* C26 (original claim, refuted): when a job marks the status entry of its key ready,
\* the videos table holds a row for that key.
C26_Original ==
    [][\A w \in 1..MaxWorkers : MarksReady(w) => RowsOfJob(w) # {}]_vars

\* C26 (amended): a job marks its entry ready with the location its upload returned
\* whether or not create_video returned a record; when create_video returned a
\* record, the videos table holds the row of the job's key with that location.
C26_ReadyAfterPersist ==
    [][\A w \in 1..MaxWorkers :
        MarksReady(w)
        => /\ video_generation_status'[workers[w].video_id] = ReadyEntry(workers[w].storage_url)
           /\ workers[w].video_record # None
              => \E row \in RowsOfJob(w) : row.storage_url = workers[w].storage_url]_vars
\* a job has finished: the entry of a key is ready with the location of the key's row,
\* written in this run
C26_Witness ==
    \E key \in ArtifactKeys :
        /\ IdOf(key) \in DOMAIN video_generation_status
        /\ video_generation_status[IdOf(key)].status = "ready"
        /\ RunningFor(IdOf(key)) = {}
        /\ \E row \in RowsFor(key) :
            /\ row.storage_url = video_generation_status[IdOf(key)].storage_url
            /\ row.storage_url.timestamp >= 1

\* the step is a job's call of DatabaseService.create_video
PersistStep(w) ==
    /\ workers[w] # Idle
    /\ workers[w].pc = "persist"
    /\ workers'[w] # Idle
    /\ workers'[w].pc = "message95"
\* the step is a job's upload raising or returning no URL
UploadFails(w) ==
    /\ workers[w] # Idle
    /\ workers[w].pc = "upload"
    /\ workers'[w] = Idle
\* the locations upload_video can have returned to the job by now
UrlsOfJob(w) ==
    {StorageUrl(workers[w].title_slug, workers[w].request.language,
                workers[w].request.video_type, timestamp) : timestamp \in 1..clock}

\* C27: a row a job writes carries the non-empty location the job's upload returned;
\* a job whose upload raised or returned no URL ends in that step with the upload
\* error entry, and DatabaseService.create_video is not called for it.
C27_EntryFromUpload ==
    [][\A w \in {x \in 1..MaxWorkers : workers[x] # Idle /\ workers'[x] # workers[x]} :
        /\ PersistStep(w)
           => /\ workers[w].storage_url \in UrlsOfJob(w)
              /\ workers[w].storage_url # EmptyUrl
              /\ \A row \in db' \ db : row.storage_url = workers[w].storage_url
        /\ UploadFails(w)
           => /\ video_generation_status'[workers[w].video_id] = ErrorEntry(UploadFailedMessage)
              /\ db' = db
              /\ storage' = storage]_vars
\* a job has written its row: it is past persistence with the record create_video returned
C27_Witness ==
    \E w \in 1..MaxWorkers :
        /\ workers[w] # Idle
        /\ workers[w].pc = "message95"
        /\ workers[w].video_record # None
        /\ workers[w].video_record \in db
        /\ workers[w].video_record.storage_url = workers[w].storage_url
        /\ workers[w].storage_url \in storage

\* C28: every job a thread has started ends, and it ends by leaving a terminal entry
\* (ready or error) for its id; no entry stays generating for ever (every call a job
\* makes returns or raises).
C28_JobsTerminate ==
    /\ \A w \in 1..MaxWorkers, video_id \in VideoIds :
        (workers[w] # Idle /\ workers[w].video_id = video_id)
        ~> (/\ workers[w] = Idle
            /\ video_id \in DOMAIN video_generation_status
            /\ video_generation_status[video_id].status \in Terminal)
    /\ \A video_id \in VideoIds :
        (video_id \in DOMAIN video_generation_status
            /\ video_generation_status[video_id].status = "generating")
        ~> (/\ video_id \in DOMAIN video_generation_status
            /\ video_generation_status[video_id].status \in Terminal)
\* a job that failed at the rendering stage has ended with its error entry
C28_Witness ==
    \E video_id \in VideoIds :
        /\ video_id \in DOMAIN video_generation_status
        /\ video_generation_status[video_id] = ErrorEntry(RenderFailedMessage)
        /\ RunningFor(video_id) = {}
        /\ QueuedFor(video_id) = {}

\* the threads that run a job
Busy == {w \in 1..MaxWorkers : workers[w] # Idle}

\* C29: at most two jobs run at a time; a job submitted while both threads are busy is
\* appended to the queue and its request is answered generating, not rejected; and the
\* queue is first in, first out: it changes only by a submission appending at its tail
\* or by an idle thread taking the item at its head.
C29_PoolFifo ==
    /\ [](Cardinality(Busy) <= 2)
    /\ [][submitted' # submitted
          => /\ pending["h1"] # None
             /\ Len(queue') = Len(queue) + 1
             /\ SubSeq(queue', 1, Len(queue)) = queue
             /\ queue'[Len(queue')].video_id = pending["h1"].video_id
             /\ queue'[Len(queue')].request = pending["h1"].request
             /\ resp' = VideoResponse(pending["h1"].request, pending["h1"].video_id,
                                      StatusUrl(pending["h1"].video_id), "generating")]_vars
    /\ [][\A w \in 1..MaxWorkers :
            (workers[w] = Idle /\ workers'[w] # Idle)
            => /\ queue # <<>>
               /\ queue' = Tail(queue)
               /\ workers'[w].video_id = Head(queue).video_id
               /\ workers'[w].request = Head(queue).request]_vars
    /\ [][queue' # queue
          => \/ submitted' = submitted + 1
             \/ \E w \in 1..MaxWorkers : workers[w] = Idle /\ workers'[w] # Idle]_vars
\* both threads are busy, a third job waits in the queue and its request was answered
\* generating
C29_Witness ==
    /\ Cardinality(Busy) = 2
    /\ Len(queue) = 1
    /\ submitted = 3
    /\ resp.op = "generate" /\ resp.http = 200 /\ resp.status = "generating"
    /\ resp.video_id = queue[1].video_id
    /\ \E w \in Busy : workers[w].video_id # queue[1].video_id

\* the status entry of the id is ready and has a storage_url
ReadyWithUrl(video_id) ==
    /\ video_id \in DOMAIN video_generation_status
    /\ video_generation_status[video_id].status = "ready"
    /\ "storage_url" \in DOMAIN video_generation_status[video_id]

\* C30: when the status entry of a request's id is ready with a storage_url and the
\* videos table has no row for the key, generate_video answers ready with that
\* storage_url in its first step; it does not go on to the metadata fetch, submits no
\* job and changes neither the status dictionary nor the table.
C30_ReadyFromStatus ==
    [][\A h \in Handlers, request \in Requests :
        (pending[h] = None /\ workers' = workers /\ resp'.op \in {"none", "generate"}
            /\ ReadyWithUrl(IdOf(KeyOfRequest(request)))
            /\ RowsFor(KeyOfRequest(request)) = {}
            /\ GenStart(h, request))
        => /\ resp' = VideoResponse(request, IdOf(KeyOfRequest(request)),
                          video_generation_status[IdOf(KeyOfRequest(request))].storage_url,
                          "ready")
           /\ UNCHANGED <<db, problems, storage, video_generation_status, queue, workers,
                          pending, submitted>>]_vars
\* a request was answered ready from the status entry of a job whose row is not in the
\* table
C30_Witness ==
    /\ resp.op = "generate" /\ resp.http = 200 /\ resp.status = "ready"
    /\ RowsFor(KeyOfRequest(resp.request)) = {}
    /\ resp.video_id \in DOMAIN video_generation_status
    /\ video_generation_status[resp.video_id].status = "ready"
    /\ resp.video_url = video_generation_status[resp.video_id].storage_url
    /\ \A h \in Handlers : pending[h] = None
    /\ queue = <<>>

\* the keys and ids of the requests, evaluated once
RequestKeyTable == [request \in Requests |-> KeyOfRequest(request)]
RequestIdTable == [request \in Requests |-> IdOf(KeyOfRequest(request))]

\* the status entry of the id is the entry of a failed job
FailedEntry(video_id) ==
    /\ video_id \in DOMAIN video_generation_status
    /\ video_generation_status[video_id].status = "error"

\* C31: a failed job can be retried by sending the request again: with the entry of
\* the id in error and no row for the key, generate_video goes on to the metadata
\* fetch; when the fetch finds the problem it submits a new job and answers
\* generating; and the thread that starts a job for an id whose entry is in error
\* replaces the entry by generating, progress 0.
C31_RetryAfterFailure ==
    [][/\ \A h \in Handlers, request \in Requests :
            LET key == RequestKeyTable[request]
                video_id == RequestIdTable[request]
            IN  (/\ workers' = workers
                 /\ resp'.op \in {"none", "generate"}
                 /\ FailedEntry(video_id))
                => /\ (/\ pending[h] = None
                        /\ RowsFor(key) = {}
                        /\ GenStart(h, request))
                       => /\ pending'[h] # None
                          /\ pending'[h].request = request
                          /\ resp' = NoResponse
                   /\ (/\ pending[h] # None
                        /\ pending[h].request = request
                        /\ resp'.op = "generate"
                        /\ GenFinish(h)
                        /\ MetadataFound(request))
                       => /\ resp' = VideoResponse(request, video_id, StatusUrl(video_id),
                                                   "generating")
                          /\ Len(queue') = Len(queue) + 1
                          /\ queue'[Len(queue')].video_id = video_id
                          /\ queue'[Len(queue')].request = request
                          /\ submitted' = submitted + 1
       /\ \A w \in 1..MaxWorkers :
            (workers[w] = Idle /\ workers'[w] # Idle /\ FailedEntry(workers'[w].video_id))
            => video_generation_status'[workers'[w].video_id] = StartingEntry]_vars
\* the request sent again after a failed job was answered generating: its job is queued
\* while the entry of the id is still the error entry of the failed job
C31_Witness ==
    /\ resp.op = "generate" /\ resp.http = 200 /\ resp.status = "generating"
    /\ FailedEntry(resp.video_id)
    /\ RowsFor(KeyOfRequest(resp.request)) = {}
    /\ submitted = 2
    /\ QueuedFor(resp.video_id) # {}
    /\ RunningFor(resp.video_id) = {}

\* the threads whose frame changes in the step
Stepping == {w \in 1..MaxWorkers : workers[w] # Idle /\ workers'[w] # workers[w]}
\* the entry of a failed job with the given message
FailedWith(message) == [status |-> "error", progress |-> 0, message |-> message]
\* the sentences of the failing stages
StageMessages ==
    {SolutionFailedMessage, RenderFailedMessage, FileMissingMessage, UploadFailedMessage,
     UnexpectedErrorMessage}

\* C32: the entry of a failed job is fixed by the stage that failed: status error,
\* progress 0 and the sentence of that stage, whatever was raised (a rendering that
\* ended with a non-zero exit code, with a timeout or without output file raises three
\* different texts and leaves the same entry); the sentences of the stages differ.
C32_FixedFailureMessages ==
    /\ [](Cardinality(StageMessages) = 5)
    /\ [][\A w \in Stepping :
            /\ (FailsEarly(w) /\ workers[w].pc # "render")
               => video_generation_status'[workers[w].video_id] =
                    FailedWith(CASE workers[w].pc = "solution" -> SolutionFailedMessage
                                 [] workers[w].pc = "upload" -> UploadFailedMessage
                                 [] OTHER -> UnexpectedErrorMessage)
            /\ (workers[w].pc = "render" /\ workers'[w] = Idle)
               => \A run \in RenderRuns :
                    JobRenderRun(w, run)
                    => video_generation_status'[workers[w].video_id] =
                         FailedWith(IF run = "completed" THEN FileMissingMessage
                                    ELSE RenderFailedMessage)]_vars
\* a job has failed at the upload and left the sentence of that stage
C32_Witness ==
    \E video_id \in VideoIds :
        /\ video_id \in DOMAIN video_generation_status
        /\ video_generation_status[video_id] = FailedWith(UploadFailedMessage)
        /\ RunningFor(video_id) = {}

\* C33: when the manim command exceeds its 300 s, the rendering stage raises and the job
\* ends in that step: the entry becomes error with the sentence of the rendering stage,
\* the thread is free, and nothing is uploaded and no row is created.
C33_RenderTimeout ==
    [][\A w \in Stepping :
        (workers[w].pc = "render" /\ JobRenderRun(w, "timeout"))
        => /\ workers'[w] = Idle
           /\ video_generation_status'[workers[w].video_id] = FailedWith(RenderFailedMessage)
           /\ db' = db
           /\ storage' = storage]_vars
\* the only job submitted has ended with the rendering error; nothing was uploaded
C33_Witness ==
    /\ submitted = 1
    /\ queue = <<>>
    /\ \A w \in 1..MaxWorkers : workers[w] = Idle
    /\ \E video_id \in VideoIds :
        /\ video_id \in DOMAIN video_generation_status
        /\ video_generation_status[video_id] = FailedWith(RenderFailedMessage)
    /\ \A url \in storage : url.timestamp = 0
    /\ \A row \in db : row.storage_url # EmptyUrl => row.storage_url.timestamp = 0

\* the metadata fetch of the step had to ask LeetCode (no row of the problems table
\* matched) and the call failed: nothing was stored in the problems table
LeetCodeFailed(request) ==
    /\ dbUp
    /\ GetProblemByTitle(problems, dbUp, request.problem_title) = None
    /\ GetProblemByTitleSlug(problems, dbUp, convert_title_to_slug(request.problem_title)) = None
    /\ problems' = problems

\* C34 (original claim, refuted): a request during whose synchronous part the database
\* or the metadata service fails is answered 503; it is not answered 404 and no job
\* is submitted for it.
C34_UpstreamUnavailable ==
    [][\A request \in Requests :
        /\ (~dbUp /\ pending["h1"] = None /\ resp'.op \in {"none", "generate"}
                /\ GenStart("h1", request))
           => /\ resp'.op = "generate" /\ resp'.http = 503
              /\ pending' = pending
        /\ (pending["h1"] # None /\ pending["h1"].request = request
                /\ pending'["h1"] = None
                /\ (~dbUp \/ LeetCodeFailed(request))
                /\ GenFinish("h1"))
           => /\ resp'.op = "generate" /\ resp'.http = 503
              /\ submitted' = submitted]_vars

\* C35 (original claim, refuted): for every key that has a Cache Entry, parsing the id
\* generate_video builds for the key gives back the slug, language and video type of
\* the key; and while the status dictionary has no entry for the id, video-status
\* answers ready and GET /api/video redirects to the location of the entry.
C35_IdRoundTrip ==
    \A key \in ArtifactKeys :
        RowsFor(key) # {}
        => LET video_id == IdOf(key)
               parsed == Parsed(video_id)
           IN  /\ parsed.parts >= 3
               /\ parsed.title_slug = key.title_slug
               /\ parsed.language = key.language
               /\ parsed.video_type = key.video_type
               /\ (dbUp /\ video_id \notin DOMAIN video_generation_status)
                  => /\ VideoStatus(video_id).status = "ready"
                     /\ \A r \in RowsFor(key) :
                            r.storage_url # EmptyUrl => VideoFile(video_id).http = 307

\* the title with every run of spaces and hyphens between its words replaced by one
\* space: a title that differs from the given one only in the length of these runs
SingleSeparators(title) == SqueezeRuns(Replace(Strip(title), "-", " "), {" "})
\* the title begins and ends with a word
WordsAtEnds(title) ==
    LET s == Strip(title)
    IN  s # <<>> /\ s[1] # "-" /\ s[Len(s)] # "-"

\* C36 (original claim, refuted): titles that differ only in the number of consecutive
\* spaces or hyphens between words normalise to the same slug, the slug of the title
\* with single separators.
C36_Original ==
    \A h \in Handlers :
        (pending[h] # None /\ WordsAtEnds(pending[h].request.problem_title))
        => pending[h].title_slug = NormalizeText(SingleSeparators(pending[h].request.problem_title))

\* C36 (amended): the normalisation trims and lower-cases the title and replaces every
\* space and every hyphen by one underscore, character for character: the slug is as
\* long as the trimmed title, a run of n separators becomes n underscores, and the slug
\* equals the slug of the title with single separators exactly when the title has no
\* run of two or more separators.
C36_SeparatorsKept ==
    \A h \in Handlers :
        pending[h] # None
        => LET title == pending[h].request.problem_title
               s == Strip(title)
               slug == pending[h].title_slug
           IN  /\ Len(slug) = Len(s)
               /\ \A i \in 1..Len(s) :
                      slug[i] = IF s[i] \in {" ", "-"} THEN "_" ELSE Lower(<<s[i]>>)[1]
               /\ WordsAtEnds(title)
                  => ((slug = NormalizeText(SingleSeparators(title)))
                      <=> (Len(SingleSeparators(title)) = Len(s)))
\* a title with a space and a hyphen between two words got a slug with two underscores
C36_Witness ==
    \E h \in Handlers :
        /\ pending[h] # None
        /\ pending[h].request.problem_title = <<"B", " ", "-", "B">>
        /\ pending[h].title_slug = <<"b", "_", "_", "b">>

\* the id of every request of KeyRequests, computed once
KeyIdTable == [request \in KeyRequests |-> IdOf(KeyOfRequest(request))]

\* C37: the video_id generate_video builds is injective on Artifact Keys: a request
\* whose id equals the id of the request a handler is working on has the same slug, the
\* same language and the same video type, also when the slug ends in a language or in a
\* video type or a part of one.
C37_IdInjective ==
    \A h \in Handlers :
        pending[h] # None
        => \A request \in KeyRequests :
              KeyIdTable[request] = pending[h].video_id
              => /\ NormalizeText(request.problem_title) = pending[h].title_slug
                 /\ request.language = pending[h].request.language
                 /\ request.video_type = pending[h].request.video_type
\* an id was built for a slug that ends in a language and a video type with an underscore
C37_Witness ==
    \E h \in Handlers :
        /\ pending[h] # None
        /\ pending[h].title_slug = <<"a">> \o <<"_">> \o python
        /\ pending[h].request.language = java
        /\ pending[h].request.video_type = brute_force
        /\ pending[h].video_id = <<"a">> \o <<"_">> \o python \o <<"_">> \o java \o <<"_">> \o brute_force

\* C38 (original claim, refuted): the outcome of generate_video depends on the key and
\* the state only: when a request gets its answer, a request with another title of the
\* same slug, the same language and the same video type would in this state get the
\* same status (404 or generating) and the same decision to submit a job.
C38_OutcomeByKey ==
    [][\A request \in AliasRequests, other \in AliasRequests :
        (/\ pending["h1"] # None
         /\ pending'["h1"] = None
         /\ pending["h1"].request = request
         /\ Normalize(other.problem_title) = pending["h1"].title_slug
         /\ other.language = request.language
         /\ other.video_type = request.video_type
         /\ GenFinish("h1"))
        => \E netOk \in BOOLEAN :
              LET problem_details ==
                      FetchProblemDetails(problems, dbUp, netOk, other.problem_title)
              IN  /\ (problem_details = None) <=> (resp'.http = 404)
                  /\ (problem_details # None) <=> (submitted' = submitted + 1)]_vars

\* C39 (original claim, refuted): when DELETE /api/video/{video_id} answers 200 and has
\* removed the object of the key from the bucket, then afterwards no Cache Entry and no
\* ready status entry holds the location of that object, and GET /api/video and
\* video-status for the id do not answer with it.
C39_DeletedNotServed ==
    [][\A video_id \in VideoIds :
        (/\ resp'.op = "delete"
         /\ resp'.http = 200
         /\ resp'.video_id = video_id
         /\ DeleteVideo(video_id))
        => \A url \in storage \ storage' :
              /\ \A r \in db' : r.storage_url # url
              /\ \A v \in DOMAIN video_generation_status' :
                     ("storage_url" \in DOMAIN video_generation_status'[v])
                     => video_generation_status'[v].storage_url # url
              /\ VideoFile(video_id)'.http = 307 => VideoFile(video_id)'.location # url
              /\ ("video_url" \in DOMAIN VideoStatus(video_id)')
                 => VideoStatus(video_id)'.video_url # url]_vars

\* C40 (original claim, refuted): DELETE /api/video/{video_id} answers 400 for an id of
\* fewer than three parts and 404 for the id of a key without a Cache Entry, and in
\* both cases leaves the bucket and the videos table as they were.
C40_DeleteErrors ==
    [][\A video_id \in DeleteIds :
        (/\ resp'.op = "delete"
         /\ resp'.video_id = video_id
         /\ DeleteVideo(video_id))
        => /\ (ParsedForDelete(video_id).parts < 3)
              => /\ resp'.http = 400
                 /\ UNCHANGED <<db, storage>>
           /\ (/\ ParsedForDelete(video_id).parts >= 3
               /\ \A key \in ArtifactKeys : IdOf(key) = video_id => RowsFor(key) = {})
              => /\ resp'.http = 404
                 /\ UNCHANGED <<db, storage>>]_vars

====
